---- MODULE Spec2Model ----
(***************************************************************************)
(* A model of the STARK proving and verification engine of lambdaworks:    *)
(* the Merkle commitment, the Fiat-Shamir transcript, the FRI commit and   *)
(* query phases, the four prover rounds and the four verifier steps.       *)
(*                                                                         *)
(* Field elements are the integers 0..P-1 of the prime field the           *)
(* repository's own small test uses (F17, trace length 4, blowup 2, coset  *)
(* offset 3).  A digest is the sequence <<n, b1, ..., bn>> standing for    *)
(* the hash of the bytes b1..bn: hashing is injective by construction.     *)
(* Positions are 0-based as in the source; At(s, i) reads s[i + 1].        *)
(***************************************************************************)
EXTENDS Integers, Sequences, FiniteSets, TLC

VARIABLES
    mPhase,     \* SpecMerkle: "built", "asked" (get_proof returned), "verified",
                \* "leaf" (get_leaf returned) or "batch" (get_batch_proof returned)
    mRows,      \* SpecMerkle: the rows the tree was built from
    mTree,      \* SpecMerkle: the MerkleTree {root, nodes}
    mPos,       \* SpecMerkle: the position last asked of get_proof
    mProof,     \* SpecMerkle: the result of get_proof (None or Some(Proof))
    mQuery,     \* SpecMerkle: the arguments of the last Proof::verify call
    mVerdict,   \* SpecMerkle: what that call returned
    mLeaf,      \* SpecMerkle: the last get_leaf call and its outcome
    mBatch,     \* SpecMerkle: the last get_batch_proof call and its outcome
    pc,         \* Spec: where prove / verify stands
    main_trace,    \* Spec: the main trace column given to prove
    proof_options,  \* Spec: the ProofOptions (fri_number_of_queries, grinding_factor)
    pTranscript,\* Spec: the prover's transcript
    round1,     \* Spec: Round1 result
    round2,     \* Spec: Round2 result, with the coefficients it was computed from
    round3,     \* Spec: Round3 result, with z
    round4,     \* Spec: Round4 result
    stark_proof,   \* Spec: the StarkProof handed to verify
    tamper,     \* Spec: how the proof was altered after prove ("none" if not)
    vTranscript,\* Spec: the verifier's transcript
    recovered,  \* Spec: the Challenges step 1 recovered
    checks,     \* Spec: the checks verify has executed, in order, with their outcomes
    verdict,    \* Spec: what verify returned: "none" yet, "true", "false" or "panic"
    parPhase,   \* SpecParallel: "interpolate", "evaluate", "fold" (the parallel regions) or "done"
    parColumns, \* SpecParallel: the columns of the trace
    parSlots,   \* SpecParallel: the output slots of the running parallel map
    parPolys,   \* SpecParallel: the trace polynomials, once collected
    parTerms,   \* SpecParallel: z, the frame and the gammas the trace terms are computed from
    parJobs,    \* SpecParallel: the pieces the parallel fold is split into
    parResult,  \* SpecParallel: the trace terms the fold and reduce returned
    parTranscript, \* SpecParallel: the transcript
    zPhase,     \* SpecSample: "start", "sampling" (inside the loop of sample_z_ood) or "returned"
    zOptions,   \* SpecSample: trace_length, blowup_factor and coset_offset
    zDomain,    \* SpecSample: the Domain derived from them
    zSeed,      \* SpecSample: the transcript state sample_z_ood was called with
    zTranscript,\* SpecSample: the transcript state
    zDraws,     \* SpecSample: the candidates drawn so far
    zValue,     \* SpecSample: the value sample_z_ood returned
    fPhase,     \* SpecFri: "start" or "committed"
    fInput,     \* SpecFri: the arguments of fri_commit_phase
    fResult,    \* SpecFri: what fri_commit_phase returned, and the transcript after it
    tPhase,     \* SpecTrace: "start" or "called"
    tTable,     \* SpecTrace: the TraceTable, its rows and its width
    tCall       \* SpecTrace: the last call of set_or_extend and the table before it

mvars == <<mPhase, mRows, mTree, mPos, mProof, mQuery, mVerdict, mLeaf, mBatch>>

pvars == <<pc, main_trace, proof_options, pTranscript, round1, round2, round3, round4,
           stark_proof, tamper, vTranscript, recovered, checks, verdict>>

cvars == <<parPhase, parColumns, parSlots, parPolys, parTerms, parJobs, parResult,
           parTranscript>>

svars == <<zPhase, zOptions, zDomain, zSeed, zTranscript, zDraws, zValue>>

fvars == <<fPhase, fInput, fResult>>

tvars == <<tPhase, tTable, tCall>>

vars == <<mvars, pvars, cvars, svars, fvars, tvars>>

(***************************************************************************)
(* Bounds of the model.                                                    *)
(***************************************************************************)
MaxRows == 5          \* rows given to MerkleTree::build
MaxCell == 1          \* cells of a row are drawn from 0..MaxCell
MaxLongRows == 9      \* the longest list of rows, its rows all <<0>>

(***************************************************************************)
(* Generic helpers.                                                        *)
(***************************************************************************)
At(s, i) == s[i + 1]

Range(s) == {s[i] : i \in 1..Len(s)}

None == [some |-> FALSE]
Some(x) == [some |-> TRUE, val |-> x]

RECURSIVE Flatten(_)
Flatten(ss) == IF ss = <<>> THEN <<>> ELSE Head(ss) \o Flatten(Tail(ss))

(***************************************************************************)
(* Merkle backend: crypto/src/merkle_tree/backends/batch_256_bits.rs.      *)
(* A field element serialises to one byte-block (to_bytes_be); the digest  *)
(* of a byte string x is <<Len(x)>> \o x.                                  *)
(***************************************************************************)
Digest(bytes) == <<Len(bytes)>> \o bytes

hash_data(input) == Digest(input)

hash_new_parent_left_only(left, right) == Digest(left)

hash_new_parent(left, right) == Digest(left \o right)

hash_leaves(values) == [i \in 1..Len(values) |-> hash_data(values[i])]

(***************************************************************************)
(* crypto/src/merkle_tree/utils.rs                                         *)
(***************************************************************************)
sibling_index_same_side(node_index) ==
    IF node_index % 2 = 0 THEN node_index + 1 ELSE node_index - 1

sibling_index(node_index) ==
    IF node_index % 2 = 0 THEN node_index - 1 ELSE node_index + 1

parent_index(node_index) ==
    IF node_index % 2 = 0 THEN (node_index - 1) \div 2 ELSE node_index \div 2

RECURSIVE is_power_of_two(_)
is_power_of_two(x) ==
    IF x = 0 THEN FALSE
    ELSE IF x = 1 THEN TRUE
    ELSE IF x % 2 = 1 THEN FALSE
    ELSE is_power_of_two(x \div 2)

RECURSIVE complete_repeating_first(_)
complete_repeating_first(values) ==
    IF is_power_of_two(Len(values)) THEN values
    ELSE complete_repeating_first(Append(values, values[1]))

RECURSIVE complete_until_power_of_two(_)
complete_until_power_of_two(values) ==
    IF is_power_of_two(Len(values)) THEN values
    ELSE complete_until_power_of_two(Append(values, values[Len(values)]))

is_leaf(lenght, node_index) ==
    node_index >= (lenght \div 2) /\ node_index < lenght

left_child_index(parent) == parent * 2 + 1

right_child_index(parent) == parent * 2 + 2

RECURSIVE build(_, _)
build(nodes, parent) ==
    IF is_leaf(Len(nodes), parent) THEN nodes
    ELSE LET l == left_child_index(parent)
             r == right_child_index(parent)
             n1 == build(nodes, l)
             n2 == build(n1, r)
         IN  [n2 EXCEPT ![parent + 1] = hash_new_parent(At(n2, l), At(n2, r))]

(***************************************************************************)
(* crypto/src/merkle_tree/merkle.rs                                        *)
(***************************************************************************)
ROOT == 0

MerkleTree_build(unhashed_leaves) ==
    LET hashed_leaves == complete_until_power_of_two(hash_leaves(unhashed_leaves))
        leaves_len == Len(hashed_leaves)
        start == [i \in 1..(leaves_len - 1) |-> hashed_leaves[1]] \o hashed_leaves
        nodes == build(start, ROOT)
    IN  [root |-> At(nodes, ROOT), nodes |-> nodes]

nodes_len(tree) == Len(tree.nodes)

\* Ok(path) or Err(OutOfBounds), the latter as None.
RECURSIVE build_merkle_path(_, _)
build_merkle_path(tree, pos) ==
    IF pos = ROOT THEN Some(<<>>)
    ELSE LET s == sibling_index(pos)
         IN  IF s < 0 \/ s >= nodes_len(tree) THEN None
             ELSE LET rest == build_merkle_path(tree, parent_index(pos))
                  IN  IF rest.some THEN Some(<<At(tree.nodes, s)>> \o rest.val)
                      ELSE None

get_proof(tree, pos) ==
    LET first_leaf_index == nodes_len(tree) \div 2
    IN  build_merkle_path(tree, pos + first_leaf_index)

\* Indexing the node array out of range panics.
get_leaf(tree, leaf_index) ==
    LET first_leaf_pos == nodes_len(tree) \div 2
    IN  IF leaf_index + first_leaf_pos >= nodes_len(tree) THEN [outcome |-> "panic"]
        ELSE [outcome |-> "ok", node |-> At(tree.nodes, leaf_index + first_leaf_pos)]

\* ceil(log2(nodes_len))
RECURSIVE levels(_)
levels(len) == IF len <= 1 THEN 0 ELSE 1 + levels((len + 1) \div 2)

\* The sibling test of one level with the obtainable nodes left out: every
\* sibling not yet in the authentication set is added.
siblings_missing_ignoring_obtainable(obtainable_nodes_by_level, auth_set) ==
    {sibling_index(pos) : pos \in obtainable_nodes_by_level} \ auth_set

\* One level of get_batch_auth_path_positions: the siblings to add to auth_set.
siblings_missing(obtainable_nodes_by_level, auth_set) ==
    {sibling_index(pos) : pos \in obtainable_nodes_by_level}
        \ (obtainable_nodes_by_level \cup auth_set)

\* The sibling and the parent of position 0 are computed as 0 - 1 in usize:
\* the subtraction overflows (a panic where overflow is checked, a position
\* past every node array where it wraps).
RECURSIVE batch_auth_levels(_, _, _)
batch_auth_levels(remaining, obtainable_nodes_by_level, auth_set) ==
    IF remaining <= 0 THEN [overflow |-> FALSE, auth_set |-> auth_set]
    ELSE IF ROOT \in obtainable_nodes_by_level THEN [overflow |-> TRUE, auth_set |-> auth_set]
    ELSE batch_auth_levels(remaining - 1,
                           {parent_index(pos) : pos \in obtainable_nodes_by_level},
                           auth_set \cup siblings_missing(obtainable_nodes_by_level, auth_set))

get_batch_auth_path_positions(tree, leaf_positions) ==
    batch_auth_levels(levels(nodes_len(tree)) - 1, leaf_positions, {})

\* BatchProof {auth}: the (position, node) pairs; None is never returned.
get_batch_proof(tree, pos_list) ==
    LET Collected(batch_auth_path_positions) ==
            IF \/ batch_auth_path_positions.overflow
               \/ \E pos \in batch_auth_path_positions.auth_set : pos >= nodes_len(tree)
            THEN [outcome |-> "panic", positions |-> {}, auth |-> {}]
            ELSE [outcome |-> "ok",
                  positions |-> batch_auth_path_positions.auth_set,
                  auth |-> {<<pos, At(tree.nodes, pos)>> :
                                pos \in batch_auth_path_positions.auth_set}]
    IN  Collected(get_batch_auth_path_positions(tree, pos_list))

(***************************************************************************)
(* Proof::verify (crypto/src/merkle_tree/proof.rs is not among the source  *)
(* files; this follows section 4.2): recompute the leaf hash and fold up   *)
(* the path, the side given by the parity of the halved index.             *)
(***************************************************************************)
RECURSIVE fold_path(_, _, _)
fold_path(hashed_value, index, merkle_path) ==
    IF merkle_path = <<>> THEN hashed_value
    ELSE LET sib == Head(merkle_path)
             up == IF index % 2 = 0 THEN hash_new_parent(hashed_value, sib)
                   ELSE hash_new_parent(sib, hashed_value)
         IN  fold_path(up, index \div 2, Tail(merkle_path))

Proof_verify(merkle_path, root_hash, index, value) ==
    root_hash = fold_path(hash_data(value), index, merkle_path)

(***************************************************************************)
(* The prime field F17 (math/src/field: the Field layer is external).      *)
(* An element is its canonical representative in 0..P-1.                   *)
(***************************************************************************)
P == 17
TWO_ADICITY == 4
TWO_ADIC_PRIMITVE_ROOT_OF_UNITY == 3

FAdd(a, b) == (a + b) % P
FSub(a, b) == (a + P - b) % P
FMul(a, b) == (a * b) % P

\* pow: square and multiply, the exponent read from its low bit
RECURSIVE pow_loop(_, _, _)
pow_loop(result, base, exponent) ==
    IF exponent > 0
    THEN pow_loop(IF exponent % 2 = 1 THEN FMul(result, base) ELSE result,
                  FMul(base, base), exponent \div 2)
    ELSE result

\* the result starts at the base, not at one
FPow_from_base(a, e) == pow_loop(a, a, e)

FPow(a, e) == pow_loop(1, a, e)

\* inv() is an Err for zero; callers that unwrap() it panic (see the callers).
FInv(a) == FPow(a, P - 2)

RECURSIVE Pow2(_)
Pow2(k) == IF k = 0 THEN 1 ELSE 2 * Pow2(k - 1)

RECURSIVE trailing_zeros(_)
trailing_zeros(n) == IF n % 2 = 1 THEN 0 ELSE 1 + trailing_zeros(n \div 2)

RECURSIVE next_power_of_two(_)
next_power_of_two(n) ==
    IF n <= 1 THEN 1 ELSE 2 * next_power_of_two((n + 1) \div 2)

get_primitive_root_of_unity(order) ==
    FPow(TWO_ADIC_PRIMITVE_ROOT_OF_UNITY, Pow2(TWO_ADICITY - order))

(***************************************************************************)
(* Polynomials (math/src/polynomial.rs): coefficient sequences, low to     *)
(* high degree, without trailing zeros.                                    *)
(***************************************************************************)
RECURSIVE Polynomial_new(_)
Polynomial_new(coefficients) ==
    IF coefficients = <<>> THEN <<>>
    ELSE IF coefficients[Len(coefficients)] = 0
         THEN Polynomial_new(SubSeq(coefficients, 1, Len(coefficients) - 1))
         ELSE coefficients

Polynomial_zero == <<>>

Coeff(p, i) == IF i < Len(p) THEN At(p, i) ELSE 0

RECURSIVE evaluate(_, _)
evaluate(p, x) ==
    IF p = <<>> THEN 0 ELSE FAdd(FMul(evaluate(Tail(p), x), x), Head(p))

Max(a, b) == IF a >= b THEN a ELSE b

PolyAdd(pa, pb) ==
    Polynomial_new([i \in 1..Max(Len(pa), Len(pb)) |-> FAdd(Coeff(pa, i - 1), Coeff(pb, i - 1))])

PolySub(pa, pb) ==
    Polynomial_new([i \in 1..Max(Len(pa), Len(pb)) |-> FSub(Coeff(pa, i - 1), Coeff(pb, i - 1))])

PolyScalarMul(c, p) == Polynomial_new([i \in 1..Len(p) |-> FMul(c, p[i])])

\* p - c for a field element c
PolySubConst(p, c) == PolySub(p, Polynomial_new(<<c>>))

\* scale: p(offset * x)
PolyScale(p, offset) == Polynomial_new([i \in 1..Len(p) |-> FMul(p[i], FPow(offset, i - 1))])

RECURSIVE SumTo(_, _, _)
\* sum over i in lo..hi of f[i] in the field
SumTo(f, lo, hi) ==
    IF lo > hi THEN 0
    ELSE IF lo = hi THEN f[lo] % P
    ELSE LET mid == (lo + hi) \div 2
         IN  FAdd(SumTo(f, lo, mid), SumTo(f, mid + 1, hi))

\* ruffini_division_inplace: the quotient of p by (x - b), the remainder dropped.
RECURSIVE RuffiniAcc(_, _, _)
RuffiniAcc(p, b, k) ==
    \* the coefficients q_(k-1) .. of the quotient, highest first, as a sequence low to high
    IF k > Len(p) - 1 THEN <<>>
    ELSE LET rest == RuffiniAcc(p, b, k + 1)
             above == IF rest = <<>> THEN 0 ELSE Head(rest)
         IN  <<FAdd(At(p, k), FMul(b, above))>> \o rest

ruffini_division(p, b) ==
    IF p = <<>> THEN <<>> ELSE Polynomial_new(RuffiniAcc(p, b, 1))

(***************************************************************************)
(* fft/src/polynomial.rs: evaluation and interpolation over the powers of  *)
(* a primitive root of unity, by what the transforms compute.              *)
(***************************************************************************)
evaluate_fft(p, blowup_factor, domain_size) ==
    LET len == next_power_of_two(Max(Len(p), domain_size)) * blowup_factor
        w == get_primitive_root_of_unity(trailing_zeros(len))
    IN  [i \in 1..len |-> evaluate(p, FPow(w, i - 1))]

evaluate_offset_fft(p, blowup_factor, domain_size, offset) ==
    evaluate_fft(PolyScale(p, offset), blowup_factor, domain_size)

interpolate_fft(fft_evals) ==
    LET n == Len(fft_evals)
        w == get_primitive_root_of_unity(trailing_zeros(n))
        winv == FInv(w)
        scale_factor == FInv(n % P)
    IN  Polynomial_new([j \in 1..n |->
            FMul(scale_factor,
                 SumTo([i \in 1..n |-> FMul(fft_evals[i], FPow(winv, (i - 1) * (j - 1)))], 1, n))])

interpolate_offset_fft(fft_evals, offset) ==
    PolyScale(interpolate_fft(fft_evals), FInv(offset))

(***************************************************************************)
(* The instance: Fibonacci over F17, trace length 4, blowup factor 2,      *)
(* coset offset 3.                                                         *)
(***************************************************************************)
TRACE_LENGTH == 4
BLOWUP_FACTOR == 2
COSET_OFFSET == 3

(***************************************************************************)
(* Domain: derived from (trace_length, blowup_factor, coset_offset).       *)
(***************************************************************************)
Domain_new(trace_length, blowup_factor, coset_offset) ==
    LET root_order == trailing_zeros(trace_length)
        lde_root_order == trailing_zeros(trace_length * blowup_factor)
        lde_root == get_primitive_root_of_unity(lde_root_order)
        trace_root == get_primitive_root_of_unity(root_order)
    IN  [ root_order |-> root_order,
          lde_root_order |-> lde_root_order,
          blowup_factor |-> blowup_factor,
          coset_offset |-> coset_offset % P,
          interpolation_domain_size |-> trace_length,
          trace_primitive_root |-> trace_root,
          trace_roots_of_unity |-> [i \in 1..trace_length |-> FPow(trace_root, i - 1)],
          lde_roots_of_unity_coset |->
              [i \in 1..(trace_length * blowup_factor) |->
                  FMul(coset_offset % P, FPow(lde_root, i - 1))] ]

domain == Domain_new(TRACE_LENGTH, BLOWUP_FACTOR, COSET_OFFSET)

(***************************************************************************)
(* Transcript: a running state h over the history of appends and samples.  *)
(* log keeps the operations in call order, each as <<kind>> \o data.       *)
(***************************************************************************)
STATE_MODULUS == 46337
\* the kind of an operation, as the state absorbs it
TranscriptOp ==
    [ append_bytes |-> 0, append_field_element |-> 1, sample_field_element |-> 2,
      sample_u64 |-> 3, sample_z_ood |-> 4 ]

STATE_MULTIPLIER == 31

Absorb(h, x) == (h * STATE_MULTIPLIER + x + 1) % STATE_MODULUS

RECURSIVE MultiplierPow(_)
MultiplierPow(e) ==
    IF e = 0 THEN 1
    ELSE LET half == MultiplierPow(e \div 2)
             square == (half * half) % STATE_MODULUS
         IN  IF e % 2 = 1 THEN (square * STATE_MULTIPLIER) % STATE_MODULUS ELSE square

RECURSIVE AbsorbedSum(_, _, _)
AbsorbedSum(data, lo, hi) ==
    IF lo > hi THEN 0
    ELSE IF lo = hi THEN ((data[lo] + 1) * MultiplierPow(Len(data) - lo)) % STATE_MODULUS
    ELSE LET mid == (lo + hi) \div 2
         IN  (AbsorbedSum(data, lo, mid) + AbsorbedSum(data, mid + 1, hi)) % STATE_MODULUS

\* Absorb applied to every element of data in turn
AbsorbAll(h, data) ==
    (h * MultiplierPow(Len(data)) + AbsorbedSum(data, 1, Len(data))) % STATE_MODULUS

Transcript_new == [log |-> <<>>, h |-> 0]

append_bytes(t, data) ==
    [log |-> Append(t.log, <<TranscriptOp.append_bytes>> \o data),
     h |-> AbsorbAll(Absorb(t.h, TranscriptOp.append_bytes), <<Len(data)>> \o data)]

append_field_element(t, e) ==
    [log |-> Append(t.log, <<TranscriptOp.append_field_element, e>>),
     h |-> Absorb(Absorb(t.h, TranscriptOp.append_field_element), e)]

RECURSIVE append_field_elements(_, _)
append_field_elements(t, es) ==
    IF es = <<>> THEN t
    ELSE append_field_elements(append_field_element(t, Head(es)), Tail(es))

\* A sample returns the value and the transcript after the sample.
sample_field_element(t) ==
    LET h2 == Absorb(t.h, TranscriptOp.sample_field_element)
    IN  [t |-> [log |-> Append(t.log, <<TranscriptOp.sample_field_element>>), h |-> h2],
         value |-> h2 % P]

sample_u64(t, upper_bound) ==
    LET h2 == Absorb(t.h, TranscriptOp.sample_u64)
    IN  [t |-> [log |-> Append(t.log, <<TranscriptOp.sample_u64, upper_bound>>), h |-> h2],
         value |-> h2 % upper_bound]

\* n samples in a row: the values in order and the transcript after them.
RECURSIVE batch_sample_challenges(_, _)
batch_sample_challenges(size, t) ==
    IF size = 0 THEN [t |-> t, values |-> <<>>]
    ELSE LET s == sample_field_element(t)
             rest == batch_sample_challenges(size - 1, s.t)
         IN  [t |-> rest.t, values |-> <<s.value>> \o rest.values]

MaxZTries == 40

\* Rejection sampling: candidates are drawn from the running state until one
\* is outside both sets; ok is FALSE when no candidate was found in the
\* tries given.
\* the test of the loop with the trace roots of unity left out
sample_z_outside_coset(value, lde_roots_of_unity_coset, trace_roots_of_unity) ==
    value \notin Range(lde_roots_of_unity_coset)

\* the test of the loop: the candidate is in neither slice
sample_z_outside(value, lde_roots_of_unity_coset, trace_roots_of_unity) ==
    /\ value \notin Range(lde_roots_of_unity_coset)
    /\ value \notin Range(trace_roots_of_unity)

\* the same challenge read again: the transcript is left where it was
transcript_to_field_again(h) ==
    [h |-> h, value |-> Absorb(h, TranscriptOp.sample_z_ood) % P]

\* transcript.challenge() moves the transcript on; the challenge is reduced
\* into the field
transcript_to_field(h) ==
    LET challenge == Absorb(h, TranscriptOp.sample_z_ood)
    IN  [h |-> challenge, value |-> challenge % P]

RECURSIVE sample_z_loop(_, _, _, _)
sample_z_loop(h, lde_roots_of_unity_coset, trace_roots_of_unity, tries) ==
    LET drawn == transcript_to_field(h)
    IN  IF tries = 0 THEN [h |-> h, value |-> 0, ok |-> FALSE]
        ELSE IF sample_z_outside(drawn.value, lde_roots_of_unity_coset, trace_roots_of_unity)
             THEN [h |-> drawn.h, value |-> drawn.value, ok |-> TRUE]
             ELSE sample_z_loop(drawn.h, lde_roots_of_unity_coset, trace_roots_of_unity, tries - 1)

sample_z_ood(t, lde_roots_of_unity_coset, trace_roots_of_unity) ==
    LET r == sample_z_loop(t.h, lde_roots_of_unity_coset, trace_roots_of_unity, MaxZTries)
    IN  [t |-> [log |-> Append(t.log, <<TranscriptOp.sample_z_ood>>), h |-> r.h],
         value |-> r.value, ok |-> r.ok]

(***************************************************************************)
(* Grinding: a nonce whose hash with the transcript state has at least     *)
(* grinding_factor leading zero bits, in a hash of HASH_BITS bits.         *)
(***************************************************************************)
HASH_BITS == 4

RECURSIVE leading_zeros(_, _)
leading_zeros(x, bits) ==
    IF bits = 0 THEN 0
    ELSE IF x >= Pow2(bits - 1) THEN 0 ELSE 1 + leading_zeros(x, bits - 1)

hash_transcript_with_int_and_get_leading_zeros(transcript_challenge, nonce) ==
    leading_zeros((transcript_challenge * 5 + nonce * 7 + 3) % Pow2(HASH_BITS), HASH_BITS)

Nonces == 0..(Pow2(HASH_BITS) - 1)

generate_nonce_with_grinding(transcript_challenge, grinding_factor) ==
    LET good == {n \in Nonces :
                    hash_transcript_with_int_and_get_leading_zeros(transcript_challenge, n)
                        >= grinding_factor}
    IN  IF good = {} THEN None
        ELSE Some(CHOOSE n \in good : \A m \in good : n <= m)

(***************************************************************************)
(* FibonacciAIR (provers/stark/src/examples/simple_fibonacci.rs) and the   *)
(* defaults of the AIR trait (provers/stark/src/traits.rs).                *)
(***************************************************************************)
PolyMul(pa, pb) ==
    IF pa = <<>> \/ pb = <<>> THEN <<>>
    ELSE Polynomial_new([k \in 1..(Len(pa) + Len(pb) - 1) |->
            SumTo([i \in 1..Len(pa) |->
                      IF k - i + 1 >= 1 /\ k - i + 1 <= Len(pb)
                      THEN FMul(pa[i], pb[k - i + 1]) ELSE 0], 1, Len(pa))])

air_context ==
    [ trace_columns |-> 1,
      transition_exemptions |-> <<2>>,
      transition_offsets |-> <<0, 1, 2>>,
      num_transition_constraints |-> 1 ]

pub_inputs == [a0 |-> 1, a1 |-> 1]

number_auxiliary_rap_columns == 0

boundary_constraints ==
    << [col |-> 0, step |-> 0, value |-> pub_inputs.a0],
       [col |-> 0, step |-> 1, value |-> pub_inputs.a1] >>

\* frame: one row per transition offset, each row the columns of that step.
compute_transition(frame) ==
    LET a0 == At(At(frame, 0), 0)
        a1 == At(At(frame, 1), 0)
        a2 == At(At(frame, 2), 0)
    IN  <<FSub(FSub(a2, a1), a0)>>

RECURSIVE ProductOfRoots(_)
\* the product of (x - r) over the sequence of roots given
ProductOfRoots(roots) ==
    IF roots = <<>> THEN <<1>>
    ELSE PolyMul(ProductOfRoots(Tail(roots)), <<FSub(0, Head(roots)), 1>>)

\* one polynomial per exemption count: (x - last root) ... over the last
\* cant_take roots of the trace domain
transition_exemptions ==
    LET roots == domain.trace_roots_of_unity
        n == Len(roots)
    IN  [e \in 1..Len(air_context.transition_exemptions) |->
            ProductOfRoots([k \in 1..air_context.transition_exemptions[e] |-> roots[n - k + 1]])]

\* for index 1..max: the product over k in 1..index of (x - root^k)
transition_exemptions_verifier(root) ==
    LET max == CHOOSE m \in Range(air_context.transition_exemptions) :
                   \A o \in Range(air_context.transition_exemptions) : o <= m
    IN  [index \in 1..max |-> ProductOfRoots([k \in 1..index |-> FPow(root, k)])]

(***************************************************************************)
(* The constraint evaluator: the value of the composition polynomial H     *)
(* at every point of the LDE coset from the LDE trace, and H itself by     *)
(* offset interpolation.                                                   *)
(***************************************************************************)
ConstraintEvaluator_evaluate(lde_trace, transition_coefficients, boundary_coefficients) ==
    LET n == Len(lde_trace)
        g == domain.trace_primitive_root
        point(i) == At(domain.lde_roots_of_unity_coset, i)
        boundary(i) ==
            SumTo([b \in 1..Len(boundary_constraints) |->
                      FMul(boundary_coefficients[b],
                           FMul(FSub(At(At(lde_trace, i), boundary_constraints[b].col),
                                     boundary_constraints[b].value),
                                FInv(FSub(point(i), FPow(g, boundary_constraints[b].step)))))],
                  1, Len(boundary_constraints))
        frame(i) == [k \in 1..Len(air_context.transition_offsets) |->
                        At(lde_trace, (i + air_context.transition_offsets[k] * domain.blowup_factor) % n)]
        zerofier_inv(i) == FInv(FSub(FPow(point(i), domain.interpolation_domain_size), 1))
        transition(i) ==
            SumTo([c \in 1..air_context.num_transition_constraints |->
                      FMul(FMul(transition_coefficients[c], compute_transition(frame(i))[c]),
                           FMul(zerofier_inv(i), evaluate(transition_exemptions[c], point(i))))],
                  1, air_context.num_transition_constraints)
    IN  [i \in 1..n |-> FAdd(boundary(i - 1), transition(i - 1))]

compute_composition_poly(constraint_evaluations, offset) ==
    interpolate_offset_fft(constraint_evaluations, offset)

break_in_parts(poly, number_of_parts) ==
    [i \in 1..number_of_parts |->
        Polynomial_new([k \in 1..((Len(poly) + number_of_parts - i) \div number_of_parts) |->
                           poly[(k - 1) * number_of_parts + i]])]

(***************************************************************************)
(* provers/stark/src/prover.rs                                             *)
(***************************************************************************)
batch_commit(vectors) == MerkleTree_build(vectors)

evaluate_polynomial_on_lde_domain(p, blowup_factor, domain_size, offset) ==
    LET evaluations == evaluate_offset_fft(p, blowup_factor, domain_size, offset)
        step == Len(evaluations) \div (domain_size * blowup_factor)
    IN  [i \in 1..((Len(evaluations) + step - 1) \div step) |-> evaluations[(i - 1) * step + 1]]

compute_trace_polys(columns) == [c \in 1..Len(columns) |-> interpolate_fft(columns[c])]

\* interpolate_fft returns Err(FFTError) for a column whose length is not a
\* power of two with a root of unity in the field (0 included).
interpolate_fft_is_err(fft_evals) ==
    IF is_power_of_two(Len(fft_evals))
    THEN trailing_zeros(Len(fft_evals)) > TWO_ADICITY
    ELSE TRUE

\* collect::<Result<..>>().unwrap(): an Err of any column panics
compute_trace_polys_panics(columns) ==
    \E c \in 1..Len(columns) : interpolate_fft_is_err(columns[c])

compute_lde_trace_evaluations(trace_polys) ==
    [c \in 1..Len(trace_polys) |->
        evaluate_polynomial_on_lde_domain(trace_polys[c], domain.blowup_factor,
                                          domain.interpolation_domain_size, domain.coset_offset)]

\* TraceTable::new_from_cols(..).rows()
rows_from_cols(cols) ==
    IF cols = <<>> THEN <<>>
    ELSE [i \in 1..Len(cols[1]) |-> [c \in 1..Len(cols) |-> cols[c][i]]]

interpolate_and_commit(columns, transcript) ==
    LET \* the statements of the function, the last ones first
        Committed(trace_polys, lde_trace_evaluations, tree) ==
            [ trace_polys |-> trace_polys,
              lde_trace_evaluations |-> lde_trace_evaluations,
              lde_trace_merkle_tree |-> tree,
              lde_trace_merkle_root |-> tree.root,
              transcript |-> append_bytes(transcript, tree.root) ]
        Evaluated(trace_polys, lde_trace_evaluations) ==
            Committed(trace_polys, lde_trace_evaluations,
                      batch_commit(rows_from_cols(lde_trace_evaluations)))
        Interpolated(trace_polys) ==
            Evaluated(trace_polys, compute_lde_trace_evaluations(trace_polys))
    IN  Interpolated(compute_trace_polys(columns))

\* The auxiliary trace of FibonacciAIR is empty: one tree, one root.
round_1_randomized_air_with_preprocessing(columns, transcript) ==
    LET Round1Result(main) ==
            [ trace_polys |-> main.trace_polys,
              lde_trace |-> rows_from_cols(main.lde_trace_evaluations),
              lde_trace_merkle_roots |-> <<main.lde_trace_merkle_root>>,
              lde_trace_merkle_trees |-> <<main.lde_trace_merkle_tree>>,
              transcript |-> main.transcript ]
    IN  Round1Result(interpolate_and_commit(columns, transcript))

commit_composition_polynomial(lde_composition_poly_parts_evaluations) ==
    batch_commit(rows_from_cols(lde_composition_poly_parts_evaluations))

NUMBER_OF_PARTS == 1

round_2_compute_composition_polynomial(round_1_result, transition_coefficients, boundary_coefficients) ==
    LET \* the statements of the round, the last ones first
        Round2Result(composition_poly_parts, lde_parts, tree) ==
            [ composition_poly_parts |-> composition_poly_parts,
              lde_composition_poly_evaluations |-> lde_parts,
              composition_poly_merkle_tree |-> tree,
              composition_poly_root |-> tree.root ]
        Committed(composition_poly_parts, lde_parts) ==
            Round2Result(composition_poly_parts, lde_parts,
                         commit_composition_polynomial(lde_parts))
        Evaluated(composition_poly_parts) ==
            Committed(composition_poly_parts,
                      [i \in 1..Len(composition_poly_parts) |->
                          evaluate_polynomial_on_lde_domain(composition_poly_parts[i],
                              domain.blowup_factor, domain.interpolation_domain_size,
                              domain.coset_offset)])
        constraint_evaluations ==
            ConstraintEvaluator_evaluate(round_1_result.lde_trace,
                                         transition_coefficients, boundary_coefficients)
        composition_poly == compute_composition_poly(constraint_evaluations, domain.coset_offset)
    IN  Evaluated(break_in_parts(composition_poly, NUMBER_OF_PARTS))

\* Frame::get_trace_evaluations: one row per frame offset, t_j(z * g^offset)
\* for every trace polynomial j.
Frame_get_trace_evaluations(trace_polys, x, frame_offsets, primitive_root) ==
    [k \in 1..Len(frame_offsets) |->
        [j \in 1..Len(trace_polys) |->
            evaluate(trace_polys[j], FMul(x, FPow(primitive_root, frame_offsets[k])))]]

\* the frame evaluated at z in every row: the offsets of the rows are not applied
round_3_evaluate_every_row_at_z(round_1_result, round_2_result, z) ==
    LET z_power == FPow(z, Len(round_2_result.composition_poly_parts))
    IN  [ trace_ood_evaluations |->
              Frame_get_trace_evaluations(round_1_result.trace_polys, z,
                  air_context.transition_offsets, 1),
          composition_poly_parts_ood_evaluation |->
              [i \in 1..Len(round_2_result.composition_poly_parts) |->
                  evaluate(round_2_result.composition_poly_parts[i], z_power)] ]

round_3_evaluate_polynomials_in_out_of_domain_element(round_1_result, round_2_result, z) ==
    LET z_power == FPow(z, Len(round_2_result.composition_poly_parts))
    IN  [ trace_ood_evaluations |->
              Frame_get_trace_evaluations(round_1_result.trace_polys, z,
                  air_context.transition_offsets, domain.trace_primitive_root),
          composition_poly_parts_ood_evaluation |->
              [i \in 1..Len(round_2_result.composition_poly_parts) |->
                  evaluate(round_2_result.composition_poly_parts[i], z_power)] ]

(***************************************************************************)
(* FRI (provers/stark/src/fri/mod.rs).  A layer commits to the evaluation  *)
(* vector with one field element per leaf.                                 *)
(***************************************************************************)
\* fold: even(p) + zeta * odd(p)
fold_polynomial(poly, zeta) ==
    LET even == [k \in 1..((Len(poly) + 1) \div 2) |-> poly[2 * k - 1]]
        odd == [k \in 1..(Len(poly) \div 2) |-> FMul(poly[2 * k], zeta)]
    IN  PolyAdd(Polynomial_new(even), Polynomial_new(odd))

FriMerkleTree_build(evaluation) ==
    MerkleTree_build([i \in 1..Len(evaluation) |-> <<evaluation[i]>>])

new_fri_layer(poly, coset_offset, domain_size) ==
    LET evaluation == evaluate_offset_fft(poly, 1, domain_size, coset_offset)
    IN  [ evaluation |-> evaluation,
          merkle_tree |-> FriMerkleTree_build(evaluation),
          coset_offset |-> coset_offset,
          domain_size |-> domain_size ]

\* a round that folds and halves the domain but keeps the coset offset
fri_commit_round_keeps_offset(state) ==
    LET zeta == sample_field_element(state.transcript)
        coset_offset == state.coset_offset
        domain_size == state.domain_size \div 2
        Commit(current_poly, zeta_value, transcript) ==
            LET current_layer == new_fri_layer(current_poly, coset_offset, domain_size)
            IN  [ current_poly |-> current_poly,
                  transcript |-> append_bytes(transcript, current_layer.merkle_tree.root),
                  coset_offset |-> coset_offset,
                  domain_size |-> domain_size,
                  fri_layer_list |-> Append(state.fri_layer_list, current_layer),
                  zetas |-> Append(state.zetas, zeta_value) ]
    IN  Commit(fold_polynomial(state.current_poly, zeta.value), zeta.value, zeta.t)

\* the body of "for _ in 1..number_layers": state holds the loop's variables
fri_commit_round(state) ==
    LET zeta == sample_field_element(state.transcript)
        coset_offset == FMul(state.coset_offset, state.coset_offset)
        domain_size == state.domain_size \div 2
        Commit(current_poly, zeta_value, transcript) ==
            LET current_layer == new_fri_layer(current_poly, coset_offset, domain_size)
            IN  [ current_poly |-> current_poly,
                  transcript |-> append_bytes(transcript, current_layer.merkle_tree.root),
                  coset_offset |-> coset_offset,
                  domain_size |-> domain_size,
                  fri_layer_list |-> Append(state.fri_layer_list, current_layer),
                  zetas |-> Append(state.zetas, zeta_value) ]
    IN  Commit(fold_polynomial(state.current_poly, zeta.value), zeta.value, zeta.t)

RECURSIVE fri_commit_loop(_, _)
fri_commit_loop(remaining, state) ==
    IF remaining = 0 THEN state
    ELSE fri_commit_loop(remaining - 1, fri_commit_round(state))

fri_commit_phase(number_layers, p_0, transcript, coset_offset, domain_size) ==
    LET current_layer == new_fri_layer(p_0, coset_offset, domain_size)
        start == [ current_poly |-> p_0,
                   transcript |-> append_bytes(transcript, current_layer.merkle_tree.root),
                   coset_offset |-> coset_offset,
                   domain_size |-> domain_size,
                   fri_layer_list |-> <<current_layer>>,
                   zetas |-> <<>> ]
        \* after the loop
        Last(state) ==
            LET zeta == sample_field_element(state.transcript)
                last_poly == fold_polynomial(state.current_poly, zeta.value)
                last_value == Coeff(last_poly, 0)
            IN  [ fri_layers |-> state.fri_layer_list,
                  zetas |-> Append(state.zetas, zeta.value),
                  last_poly |-> last_poly,
                  last_value |-> last_value,
                  transcript |-> append_field_element(zeta.t, last_value) ]
    IN  Last(fri_commit_loop(IF number_layers > 1 THEN number_layers - 1 ELSE 0, start))

\* get_proof_by_pos(..).unwrap(): the position is always inside the layer here
fri_query_phase(fri_layers, iotas) ==
    IF fri_layers # <<>>
    THEN [s \in 1..Len(iotas) |->
            LET index(l) == iotas[s] % fri_layers[l].domain_size
                index_sym(l) == (iotas[s] + fri_layers[l].domain_size \div 2)
                                    % fri_layers[l].domain_size
            IN  [ layers_auth_paths_sym |->
                      [l \in 1..Len(fri_layers) |->
                          get_proof(fri_layers[l].merkle_tree, index_sym(l)).val],
                  layers_evaluations_sym |->
                      [l \in 1..Len(fri_layers) |-> At(fri_layers[l].evaluation, index_sym(l))],
                  layers_evaluations |->
                      [l \in 1..Len(fri_layers) |-> At(fri_layers[l].evaluation, index(l))],
                  layers_auth_paths |->
                      [l \in 1..Len(fri_layers) |->
                          get_proof(fri_layers[l].merkle_tree, index(l)).val] ]]
    ELSE <<>>

(***************************************************************************)
(* Round 4 (provers/stark/src/prover.rs).                                  *)
(***************************************************************************)
\* the sum over the frame rows k of gamma_k * (t_j - t_j(z g^k)) / (x - z g^k)
\* the term of t_j alone: trace_terms is not added
compute_trace_term_alone(trace_terms, i, t_j, trace_frame_length, trace_terms_gammas, trace_frame_evaluations, transition_offsets, z, primitive_root) ==
    LET skip == i * trace_frame_length
        avail == IF Len(trace_terms_gammas) > skip THEN Len(trace_terms_gammas) - skip ELSE 0
        n1 == IF Len(trace_frame_evaluations) < Len(transition_offsets)
              THEN Len(trace_frame_evaluations) ELSE Len(transition_offsets)
        n == IF n1 < avail THEN n1 ELSE avail
        term(k) ==
            LET t_j_z == At(trace_frame_evaluations[k], i)
                z_shifted == FMul(z, FPow(primitive_root, transition_offsets[k]))
            IN  PolyScalarMul(trace_terms_gammas[skip + k],
                              ruffini_division(PolySubConst(t_j, t_j_z), z_shifted))
        RECURSIVE agg(_)
        agg(k) == IF k = 0 THEN Polynomial_zero ELSE PolyAdd(agg(k - 1), term(k))
    IN  agg(n)

compute_trace_term(trace_terms, i, t_j, trace_frame_length, trace_terms_gammas, trace_frame_evaluations, transition_offsets, z, primitive_root) ==
    LET skip == i * trace_frame_length
        avail == IF Len(trace_terms_gammas) > skip THEN Len(trace_terms_gammas) - skip ELSE 0
        n1 == IF Len(trace_frame_evaluations) < Len(transition_offsets)
              THEN Len(trace_frame_evaluations) ELSE Len(transition_offsets)
        n == IF n1 < avail THEN n1 ELSE avail
        term(k) ==
            LET t_j_z == At(trace_frame_evaluations[k], i)
                z_shifted == FMul(z, FPow(primitive_root, transition_offsets[k]))
            IN  PolyScalarMul(trace_terms_gammas[skip + k],
                              ruffini_division(PolySubConst(t_j, t_j_z), z_shifted))
        RECURSIVE agg(_)
        agg(k) == IF k = 0 THEN Polynomial_zero ELSE PolyAdd(agg(k - 1), term(k))
    IN  PolyAdd(trace_terms, agg(n))

compute_deep_composition_poly(trace_polys, round_2_result, round_3_result, z, primitive_root, composition_poly_gammas, trace_terms_gammas) ==
    LET z_power == FPow(z, Len(round_2_result.composition_poly_parts))
        RECURSIVE h(_)
        h(i) == IF i = 0 THEN Polynomial_zero
                ELSE PolyAdd(h(i - 1),
                             PolyScalarMul(composition_poly_gammas[i],
                                 PolySubConst(round_2_result.composition_poly_parts[i],
                                     round_3_result.composition_poly_parts_ood_evaluation[i])))
        h_terms == ruffini_division(h(Len(round_2_result.composition_poly_parts)), z_power)
        trace_frame_length == Len(round_3_result.trace_ood_evaluations)
        RECURSIVE tt(_)
        tt(j) == IF j = 0 THEN Polynomial_zero
                 ELSE compute_trace_term(tt(j - 1), j - 1, trace_polys[j], trace_frame_length,
                          trace_terms_gammas, round_3_result.trace_ood_evaluations,
                          air_context.transition_offsets, z, primitive_root)
    IN  PolyAdd(h_terms, tt(Len(trace_polys)))

open_deep_composition_poly(round_1_result, round_2_result, indexes_to_open) ==
    [s \in 1..Len(indexes_to_open) |->
        LET index == indexes_to_open[s] % Len(domain.lde_roots_of_unity_coset)
        IN  [ lde_composition_poly_proof |->
                  get_proof(round_2_result.composition_poly_merkle_tree, index).val,
              lde_composition_poly_parts_evaluation |->
                  [j \in 1..Len(round_2_result.lde_composition_poly_evaluations) |->
                      At(round_2_result.lde_composition_poly_evaluations[j], index)],
              lde_trace_merkle_proofs |->
                  [m \in 1..Len(round_1_result.lde_trace_merkle_trees) |->
                      get_proof(round_1_result.lde_trace_merkle_trees[m], index).val],
              lde_trace_evaluations |-> At(round_1_result.lde_trace, index) ]]

\* the query indices: one sample_u64(domain_size) per query
RECURSIVE sample_query_indexes(_, _, _)
sample_query_indexes(number_of_queries, domain_size, transcript) ==
    IF number_of_queries = 0 THEN [t |-> transcript, values |-> <<>>]
    ELSE LET s == sample_u64(transcript, domain_size)
             rest == sample_query_indexes(number_of_queries - 1, domain_size, s.t)
         IN  [t |-> rest.t, values |-> <<s.value>> \o rest.values]

round_4_compute_and_run_fri_on_the_deep_composition_polynomial(options, round_1_result, round_2_result, round_3_result, z, transcript) ==
    LET domain_size == Len(domain.lde_roots_of_unity_coset)
        \* the statements of the round, the last ones first
        Queries(gammas, trace_poly_coeffients, deep_composition_poly, fri, nonce, t) ==
            LET iotas == sample_query_indexes(options.fri_number_of_queries, domain_size, t)
            IN  [ \* what the round used, kept for comparison with the verifier
                  gammas |-> gammas,
                  trace_poly_coeffients |-> trace_poly_coeffients,
                  deep_composition_poly |-> deep_composition_poly,
                  fri_layers |-> fri.fri_layers,
                  last_poly |-> fri.last_poly,
                  zetas |-> fri.zetas,
                  iotas |-> iotas.values,
                  transcript |-> iotas.t,
                  \* Round4
                  fri_last_value |-> fri.last_value,
                  fri_layers_merkle_roots |->
                      [l \in 1..Len(fri.fri_layers) |-> fri.fri_layers[l].merkle_tree.root],
                  deep_poly_openings |->
                      open_deep_composition_poly(round_1_result, round_2_result, iotas.values),
                  query_list |-> fri_query_phase(fri.fri_layers, iotas.values),
                  nonce |-> nonce ]
        Grinding(gammas, trace_poly_coeffients, deep_composition_poly, fri) ==
            LET nonce == generate_nonce_with_grinding(fri.transcript.h, options.grinding_factor)
            IN  Queries(gammas, trace_poly_coeffients, deep_composition_poly, fri, nonce.val,
                        append_bytes(fri.transcript, <<nonce.val>>))
        Commit(gammas, trace_poly_coeffients, t, deep_composition_poly) ==
            Grinding(gammas, trace_poly_coeffients, deep_composition_poly,
                     fri_commit_phase(domain.root_order, deep_composition_poly, t,
                                      domain.coset_offset, domain_size))
        Deep(gammas, trace_poly_coeffients) ==
            Commit(gammas, trace_poly_coeffients.values, trace_poly_coeffients.t,
                   compute_deep_composition_poly(round_1_result.trace_polys, round_2_result,
                       round_3_result, z, domain.trace_primitive_root,
                       gammas, trace_poly_coeffients.values))
        Coefficients(gammas) ==
            Deep(gammas.values,
                 batch_sample_challenges(
                     Len(air_context.transition_offsets) * air_context.trace_columns, gammas.t))
    IN  Coefficients(batch_sample_challenges(Len(round_2_result.lde_composition_poly_evaluations),
                                             transcript))

(***************************************************************************)
(* The out-of-domain frame of the proof: flat data read in rows of         *)
(* row_width cells.                                                        *)
(***************************************************************************)
Frame_new(data, row_width) == [data |-> data, row_width |-> row_width]

num_rows(f) == Len(f.data) \div f.row_width

num_columns(f) == f.row_width

\* get_row slices data[row_idx * w .. (row_idx + 1) * w]; outside the data the slice panics
get_row_in_bounds(f, row_idx) == (row_idx + 1) * f.row_width <= Len(f.data)

get_row(f, row_idx) ==
    SubSeq(f.data, row_idx * f.row_width + 1, (row_idx + 1) * f.row_width)

(***************************************************************************)
(* provers/stark/src/verifier.rs.  A step that can panic returns a record  *)
(* with panic = TRUE and nothing else.                                     *)
(***************************************************************************)
Panic == [panic |-> TRUE]

RECURSIVE powers_from(_, _, _)
\* successors(Some(first), |x| x * ratio).take(n)
powers_from(first, ratio, n) ==
    IF n = 0 THEN <<>> ELSE <<first>> \o powers_from(FMul(first, ratio), ratio, n - 1)

RECURSIVE chunks(_, _)
chunks(seq, size) ==
    IF seq = <<>> THEN <<>>
    ELSE IF Len(seq) <= size THEN <<seq>>
    ELSE <<SubSeq(seq, 1, size)>> \o chunks(SubSeq(seq, size + 1, Len(seq)), size)

\* for each root: sample zeta, then append the root
RECURSIVE replay_fri_roots(_, _, _)
replay_fri_roots(merkle_roots, transcript, zetas) ==
    IF merkle_roots = <<>> THEN [t |-> transcript, zetas |-> zetas]
    ELSE LET element == sample_field_element(transcript)
         IN  replay_fri_roots(Tail(merkle_roots),
                              append_bytes(element.t, Head(merkle_roots)),
                              Append(zetas, element.value))

\* the OOD frame, column by column
ood_frame_column_major(f) ==
    Flatten([i \in 1..num_columns(f) |->
                [j \in 1..num_rows(f) |-> get_row(f, j - 1)[i]]])

\* step 1, round 1: the commitments to the trace are appended
step_1_replay_round_1(proof, transcript) ==
    LET t1 == append_bytes(transcript, proof.lde_trace_merkle_roots[1])
    IN  IF Len(proof.lde_trace_merkle_roots) >= 2
        THEN append_bytes(t1, proof.lde_trace_merkle_roots[2]) ELSE t1

\* step 1, round 2: beta is sampled, the commitment to H is appended
step_1_replay_round_2(proof, transcript) ==
    LET beta == sample_field_element(transcript)
        num_boundary_constraints == Len(boundary_constraints)
        num_transition_constraints == air_context.num_transition_constraints
        coefficients == [i \in 1..(num_boundary_constraints + num_transition_constraints) |->
                            FPow(beta.value, i - 1)]
    IN  [ boundary_coeffs |->
              SubSeq(coefficients, num_transition_constraints + 1,
                     num_boundary_constraints + num_transition_constraints),
          transition_coeffs |-> SubSeq(coefficients, 1, num_transition_constraints),
          transcript |-> append_bytes(beta.t, proof.composition_poly_root) ]

\* step 1, round 3: z is sampled; the trace frame, column by column, and then
\* the parts of H at z are appended
step_1_replay_round_3(proof, transcript) ==
    LET z == sample_z_ood(transcript, domain.lde_roots_of_unity_coset,
                          domain.trace_roots_of_unity)
        t4 == append_field_elements(z.t, ood_frame_column_major(proof.trace_ood_frame_evaluations))
    IN  [ z |-> z.value,
          z_found |-> z.ok,
          transcript |->
              append_field_elements(t4, proof.composition_poly_parts_ood_evaluation) ]

\* step 1, round 4: one gamma is sampled, the DEEP coefficients are its powers
step_1_replay_deep_composition_coefficients(proof, transcript) ==
    LET n_terms_composition_poly == Len(proof.composition_poly_parts_ood_evaluation)
        n_terms_trace == Len(air_context.transition_offsets) * air_context.trace_columns
        gamma == sample_field_element(transcript)
        deep_composition_coefficients ==
            powers_from(1, gamma.value, n_terms_composition_poly + n_terms_trace)
    IN  [ trace_term_coeffs |->
              chunks(SubSeq(deep_composition_coefficients, 1, n_terms_trace),
                     Len(air_context.transition_offsets)),
          gammas |-> SubSeq(deep_composition_coefficients, n_terms_trace + 1,
                            n_terms_composition_poly + n_terms_trace),
          transcript |-> gamma.t ]

\* step 1, FRI commit phase: a zeta before every layer root, one more after
\* the last root, then the last value is appended
step_1_replay_fri_commit_phase(proof, transcript) ==
    LET fri == replay_fri_roots(proof.fri_layers_merkle_roots, transcript, <<>>)
        last_zeta == sample_field_element(fri.t)
    IN  [ zetas |-> Append(fri.zetas, last_zeta.value),
          transcript |-> append_field_element(last_zeta.t, proof.fri_last_value) ]

\* step 1, grinding: the nonce is read and appended only if grinding is on
step_1_replay_grinding(options, proof, transcript) ==
    LET security_bits == options.grinding_factor
    IN  [ leading_zeros_count |->
              IF security_bits > 0
              THEN hash_transcript_with_int_and_get_leading_zeros(transcript.h, proof.nonce)
              ELSE 0,
          transcript |->
              IF security_bits > 0 THEN append_bytes(transcript, <<proof.nonce>>)
              ELSE transcript ]

step_1_replay_rounds_and_recover_challenges(options, proof, transcript) ==
    IF proof.lde_trace_merkle_roots = <<>> THEN Panic
    ELSE
    LET round_2 == step_1_replay_round_2(proof, step_1_replay_round_1(proof, transcript))
        round_3 == step_1_replay_round_3(proof, round_2.transcript)
        deep == step_1_replay_deep_composition_coefficients(proof, round_3.transcript)
        fri == step_1_replay_fri_commit_phase(proof, deep.transcript)
        grinding == step_1_replay_grinding(options, proof, fri.transcript)
        iotas == sample_query_indexes(options.fri_number_of_queries,
                                      Len(domain.lde_roots_of_unity_coset),
                                      grinding.transcript)
        Challenges(r2, r3, d, f, g, q) ==
            [ panic |-> FALSE,
              z |-> r3.z,
              z_found |-> r3.z_found,
              boundary_coeffs |-> r2.boundary_coeffs,
              transition_coeffs |-> r2.transition_coeffs,
              trace_term_coeffs |-> d.trace_term_coeffs,
              gammas |-> d.gammas,
              zetas |-> f.zetas,
              iotas |-> q.values,
              leading_zeros_count |-> g.leading_zeros_count,
              transcript |-> q.t ]
    IN  Challenges(round_2, round_3, deep, fri, grinding, iotas)

Min(a, b) == IF a <= b THEN a ELSE b

step_2_always_ok(proof, challenges) == "ok"

\* "ok", "fail" or "panic"
step_2_verify_claimed_composition_polynomial(proof, challenges) ==
    LET f == proof.trace_ood_frame_evaluations
        g == domain.trace_primitive_root
        trace_length == proof.trace_length
        row0_ok == get_row_in_bounds(f, 0)
                   /\ \A b \in 1..Len(boundary_constraints) :
                          boundary_constraints[b].col < f.row_width
        den(b) == FSub(challenges.z, FPow(g, boundary_constraints[b].step))
        num(b) == FSub(At(get_row(f, 0), boundary_constraints[b].col),
                       boundary_constraints[b].value)
        dens_ok == \A b \in 1..Len(boundary_constraints) : den(b) # 0
        nb == Min(Len(boundary_constraints), Len(challenges.boundary_coeffs))
        boundary_quotient_ood_evaluation ==
            SumTo([b \in 1..nb |->
                      FMul(FMul(num(b), FInv(den(b))), challenges.boundary_coeffs[b])], 1, nb)
        frame_ok == \A k \in 1..Len(air_context.transition_offsets) :
                        get_row_in_bounds(f, air_context.transition_offsets[k])
        frame == [k \in 1..Len(air_context.transition_offsets) |->
                     get_row(f, air_context.transition_offsets[k])]
        transition_ood_frame_evaluations == compute_transition(frame)
        zerofier == FSub(FPow(challenges.z, trace_length), 1)
        denominator == FInv(zerofier)
        last_root == domain.trace_roots_of_unity[Len(domain.trace_roots_of_unity)]
        exemption == [e \in 1..Len(transition_exemptions_verifier(last_root)) |->
                         evaluate(transition_exemptions_verifier(last_root)[e], challenges.z)]
        nt == Min(Min(Len(transition_ood_frame_evaluations),
                      Len(air_context.transition_exemptions)),
                  Len(challenges.transition_coeffs))
        except(c) == IF air_context.transition_exemptions[c] >= 1
                     THEN exemption[air_context.transition_exemptions[c]] ELSE 1
        transition_c_i_evaluations_sum ==
            SumTo([c \in 1..nt |->
                      FMul(FMul(denominator, transition_ood_frame_evaluations[c]),
                           FMul(challenges.transition_coeffs[c], except(c)))], 1, nt)
        composition_poly_ood_evaluation ==
            FAdd(boundary_quotient_ood_evaluation, transition_c_i_evaluations_sum)
        composition_poly_claimed_ood_evaluation ==
            evaluate(proof.composition_poly_parts_ood_evaluation, challenges.z)
    IN  IF ~row0_ok \/ ~dens_ok \/ ~frame_ok \/ zerofier = 0 THEN "panic"
        ELSE IF composition_poly_claimed_ood_evaluation = composition_poly_ood_evaluation
             THEN "ok" ELSE "fail"

query_challenge_to_merkle_root_index(index, domain_size) == index

query_challenge_to_merkle_root_index_sym(index, domain_size) ==
    (index + domain_size \div 2) % domain_size

query_challenge_to_evaluation_point(iota) == At(domain.lde_roots_of_unity_coset, iota)

query_challenge_to_evaluation_point_sym(iota) ==
    LET domain_size == Len(domain.lde_roots_of_unity_coset)
    IN  At(domain.lde_roots_of_unity_coset, (iota + domain_size \div 2) % domain_size)

verify_opening(proof, root, index, value) == Proof_verify(proof, root, index, value)

\* None when an index is out of range or an inverse of zero is unwrapped
reconstruct_deep_composition_poly_evaluation(proof, evaluation_point, primitive_root, challenges, lde_trace_evaluations, lde_composition_poly_parts_evaluation) ==
    LET f == proof.trace_ood_frame_evaluations
        rows == num_rows(f)
        denom_trace(row_idx) ==
            FSub(evaluation_point, FMul(challenges.z, FPow(primitive_root, row_idx)))
        denoms_ok == \A row_idx \in 0..(rows - 1) : denom_trace(row_idx) # 0
        ncols == Min(num_columns(f), Len(challenges.trace_term_coeffs))
        nrows(col) == Min(rows, Len(challenges.trace_term_coeffs[col]))
        cells_ok == \A col \in 1..ncols : nrows(col) > 0 => col <= Len(lde_trace_evaluations)
        trace_i(col) ==
            SumTo([r \in 1..nrows(col) |->
                      FMul(FMul(FSub(lde_trace_evaluations[col], get_row(f, r - 1)[col]),
                                FInv(denom_trace(r - 1))),
                           challenges.trace_term_coeffs[col][r])], 1, nrows(col))
        trace_term == SumTo([col \in 1..ncols |-> trace_i(col)], 1, ncols)
        number_of_parts == Len(lde_composition_poly_parts_evaluation)
        z_pow == FPow(challenges.z, number_of_parts)
        denom_composition == FSub(evaluation_point, z_pow)
        parts_ok == /\ number_of_parts <= Len(proof.composition_poly_parts_ood_evaluation)
                    /\ number_of_parts <= Len(challenges.gammas)
        h_terms ==
            FMul(SumTo([j \in 1..number_of_parts |->
                           FMul(FSub(lde_composition_poly_parts_evaluation[j],
                                     proof.composition_poly_parts_ood_evaluation[j]),
                                challenges.gammas[j])], 1, number_of_parts),
                 FInv(denom_composition))
    IN  IF ~denoms_ok \/ ~cells_ok \/ denom_composition = 0 \/ ~parts_ok THEN None
        ELSE Some(FAdd(trace_term, h_terms))

\* per query <<evaluation, evaluation at the symmetric point>>, or None
reconstruct_deep_composition_poly_evaluations_for_all_queries(challenges, proof) ==
    LET primitive_root == get_primitive_root_of_unity(domain.root_order)
        n == Len(challenges.iotas)
        present == Len(proof.deep_poly_openings) >= n /\ Len(proof.deep_poly_openings_sym) >= n
        at(i) == reconstruct_deep_composition_poly_evaluation(proof,
                     query_challenge_to_evaluation_point(challenges.iotas[i]), primitive_root,
                     challenges, proof.deep_poly_openings[i].lde_trace_evaluations,
                     proof.deep_poly_openings[i].lde_composition_poly_parts_evaluation)
        sym(i) == reconstruct_deep_composition_poly_evaluation(proof,
                     query_challenge_to_evaluation_point_sym(challenges.iotas[i]), primitive_root,
                     challenges, proof.deep_poly_openings_sym[i].lde_trace_evaluations,
                     proof.deep_poly_openings_sym[i].lde_composition_poly_parts_evaluation)
    IN  IF ~present THEN None
        ELSE IF \E i \in 1..n : ~at(i).some \/ ~sym(i).some THEN None
        ELSE Some([i \in 1..n |-> <<at(i).val, sym(i).val>>])

\* the two positions verify_fri_layer_openings opens in a layer
fri_layer_opening_indexes(iota, domain_length) ==
    [index |-> iota % domain_length,
     index_sym |-> (iota + domain_length \div 2) % domain_length]

verify_fri_layer_openings(merkle_root, auth_path, auth_path_sym, evaluation, evaluation_sym, domain_length, iota) ==
    LET index == fri_layer_opening_indexes(iota, domain_length).index
        index_sym == fri_layer_opening_indexes(iota, domain_length).index_sym
        eval_sym_ok == Proof_verify(auth_path_sym, merkle_root, index_sym, <<evaluation_sym>>)
        eval_ok == Proof_verify(auth_path, merkle_root, index, <<evaluation>>)
    IN  eval_ok /\ eval_sym_ok

RECURSIVE squares_from(_, _)
\* successors(Some(first), |x| x.square()).take(n)
squares_from(first, n) ==
    IF n = 0 THEN <<>> ELSE <<first>> \o squares_from(FMul(first, first), n - 1)

\* the fold step of the verifier: from the evaluation, the evaluation at the
\* symmetric point, the challenge and the inverse of the point
fri_fold_evaluations(v, evaluation_sym, beta, evaluation_point_inv) ==
    FAdd(FAdd(v, evaluation_sym),
         FMul(FMul(beta, FSub(v, evaluation_sym)), evaluation_point_inv))

\* the domain length the verifier takes for the k-th (from 0) root of
\* fri_layers_merkle_roots
fri_layer_domain_length(k) == Pow2(domain.lde_root_order - (k + 1))

\* the fold over the zipped layers, from layer k on; n is the length of the zip
RECURSIVE fri_query_fold(_, _, _, _, _, _, _, _, _)
fri_query_fold(proof, zetas, iota, fri_decommitment, evaluation_point_vec, k, n, v, result) ==
    IF k >= n THEN result
    ELSE LET domain_length == fri_layer_domain_length(k)
             evaluation_sym == At(fri_decommitment.layers_evaluations_sym, k)
             openings_ok ==
                 verify_fri_layer_openings(At(proof.fri_layers_merkle_roots, k),
                     At(fri_decommitment.layers_auth_paths, k),
                     At(fri_decommitment.layers_auth_paths_sym, k),
                     v, evaluation_sym, domain_length, iota)
             beta == At(zetas, k + 1)
             v2 == fri_fold_evaluations(v, evaluation_sym, beta, At(evaluation_point_vec, k))
             step == IF k < Len(fri_decommitment.layers_evaluations) - 1
                     THEN result /\ openings_ok
                     ELSE result /\ (v2 = proof.fri_last_value) /\ openings_ok
         IN  fri_query_fold(proof, zetas, iota, fri_decommitment, evaluation_point_vec,
                            k + 1, n, v2, step)

verify_query_and_sym_openings(proof, zetas, iota, fri_decommitment, evaluation_point_inverse, deep_composition_evaluation, deep_composition_evaluation_sym) ==
    LET fri_layers_merkle_roots == proof.fri_layers_merkle_roots
        evaluation_point_vec ==
            squares_from(FMul(evaluation_point_inverse, evaluation_point_inverse),
                         Len(fri_layers_merkle_roots))
        pi0 == deep_composition_evaluation
        pi0_sym == deep_composition_evaluation_sym
        v == fri_fold_evaluations(pi0, pi0_sym, At(zetas, 0), evaluation_point_inverse)
        n == Min(Min(Min(Len(fri_layers_merkle_roots), Len(fri_decommitment.layers_auth_paths)),
                     Min(Len(fri_decommitment.layers_evaluations),
                         Len(fri_decommitment.layers_auth_paths_sym))),
                 Len(fri_decommitment.layers_evaluations_sym))
    IN  fri_query_fold(proof, zetas, iota, fri_decommitment, evaluation_point_vec, 0, n, v, TRUE)

\* "ok", "fail" or "panic"
step_3_verify_fri(proof, challenges) ==
    LET deep == reconstruct_deep_composition_poly_evaluations_for_all_queries(challenges, proof)
        n == Min(Len(proof.query_list), Len(challenges.iotas))
        query_ok(i) ==
            verify_query_and_sym_openings(proof, challenges.zetas, challenges.iotas[i],
                proof.query_list[i],
                FInv(query_challenge_to_evaluation_point(challenges.iotas[i])),
                deep.val[i][1], deep.val[i][2])
    IN  IF ~deep.some THEN "panic"
        ELSE IF \A i \in 1..n : query_ok(i) THEN "ok" ELSE "fail"

\* [ok, panic]: the row is sliced at num_main_columns before any path is checked
verify_trace_openings(num_main_columns, proof, deep_poly_opening, deep_poly_opening_sym, iota) ==
    LET domain_size == Len(domain.lde_roots_of_unity_coset)
        split(row) == << SubSeq(row, 1, num_main_columns),
                         SubSeq(row, num_main_columns + 1, Len(row)) >>
        index == query_challenge_to_merkle_root_index(iota, domain_size)
        index_sym == query_challenge_to_merkle_root_index_sym(iota, domain_size)
        valid(opening, idx) ==
            \A m \in 1..Min(Min(Len(proof.lde_trace_merkle_roots),
                                Len(opening.lde_trace_merkle_proofs)), 2) :
                verify_opening(opening.lde_trace_merkle_proofs[m],
                               proof.lde_trace_merkle_roots[m], idx,
                               split(opening.lde_trace_evaluations)[m])
    IN  IF Len(deep_poly_opening.lde_trace_evaluations) < num_main_columns
           \/ Len(deep_poly_opening_sym.lde_trace_evaluations) < num_main_columns
        THEN [ok |-> FALSE, panic |-> TRUE]
        ELSE [ok |-> valid(deep_poly_opening, index) /\ valid(deep_poly_opening_sym, index_sym),
              panic |-> FALSE]

\* the position at which the symmetric composition opening is verified
composition_poly_opening_index_sym(iota) ==
    iota + Len(domain.lde_roots_of_unity_coset) \div 2

verify_composition_poly_opening(deep_poly_opening, deep_poly_opening_sym, composition_poly_merkle_root, iota) ==
    LET openings_are_valid ==
            Proof_verify(deep_poly_opening.lde_composition_poly_proof,
                         composition_poly_merkle_root, iota,
                         deep_poly_opening.lde_composition_poly_parts_evaluation)
        openings_sym_are_valid ==
            Proof_verify(deep_poly_opening_sym.lde_composition_poly_proof,
                         composition_poly_merkle_root,
                         composition_poly_opening_index_sym(iota),
                         deep_poly_opening_sym.lde_composition_poly_parts_evaluation)
    IN  openings_are_valid /\ openings_sym_are_valid

\* "ok", "fail" or "panic"
step_4_verify_trace_and_composition_openings(proof, challenges) ==
    LET n == Min(Min(Len(challenges.iotas), Len(proof.deep_poly_openings)),
                 Len(proof.deep_poly_openings_sym))
        num_main_columns == air_context.trace_columns - number_auxiliary_rap_columns
        composition(i) ==
            verify_composition_poly_opening(proof.deep_poly_openings[i],
                proof.deep_poly_openings_sym[i], proof.composition_poly_root,
                challenges.iotas[i])
        trace(i) ==
            verify_trace_openings(num_main_columns, proof, proof.deep_poly_openings[i],
                proof.deep_poly_openings_sym[i], challenges.iotas[i])
    IN  IF \E i \in 1..n : trace(i).panic THEN "panic"
        ELSE IF \A i \in 1..n : composition(i) /\ trace(i).ok THEN "ok" ELSE "fail"

(***************************************************************************)
(* SpecMerkle: build a tree from a bounded list of rows, ask it for the    *)
(* proof of a position, and call Proof::verify with the honest arguments   *)
(* or with one of them changed.                                            *)
(***************************************************************************)
MRowsSet == {<<c>> : c \in 0..MaxCell}

\* every list of 1..MaxRows rows, and the lists of MaxRows+1..MaxLongRows
\* rows that are all <<0>>
MRowLists ==
    UNION {[1..k -> MRowsSet] : k \in 1..MaxRows}
        \cup {[i \in 1..k |-> <<0>>] : k \in (MaxRows + 1)..MaxLongRows}

MPositions == 0..(2 * MaxRows + 1)

NoLeaf == [leaf_index |-> 0, outcome |-> "none"]

NoBatch == [pos_list |-> {}, outcome |-> "none", positions |-> {}, auth |-> {}]

MLeafPositions(tree) == (nodes_len(tree) \div 2)..(nodes_len(tree) - 1)

\* The position lists given to get_batch_proof: every set of at most two
\* positions from 0 to one past the last node, every set of at most three
\* leaf positions and every run of consecutive leaf positions.
MBatchLists(tree) ==
    {{a, b} : a, b \in 0..nodes_len(tree)}
        \cup {{a, b, c} : a, b, c \in MLeafPositions(tree)}
        \cup {a..b : a, b \in MLeafPositions(tree)}

NoQuery == [kind |-> "none", root |-> <<>>, index |-> 0, row |-> <<>>, path |-> <<>>]

\* Digests an altered proof or root may hold: nodes of the tree and a digest
\* that is no node of it.
MDigestPool == Range(mTree.nodes) \cup {Digest(<<MaxCell + 1>>)}

\* fri_commit_phase is not called on its own
FIdle ==
    /\ fPhase = "off"
    /\ fInput = None
    /\ fResult = None

\* no TraceTable is being written
TIdle ==
    /\ tPhase = "off"
    /\ tTable = None
    /\ tCall = None

\* no domain is derived and no z is sampled
SIdle ==
    /\ zPhase = "off"
    /\ zOptions = None
    /\ zDomain = None
    /\ zSeed = 0
    /\ zTranscript = 0
    /\ zDraws = <<>>
    /\ zValue = None

\* no parallel region is running
CIdle ==
    /\ parPhase = "off"
    /\ parColumns = <<>>
    /\ parSlots = <<>>
    /\ parPolys = <<>>
    /\ parTerms = None
    /\ parJobs = <<>>
    /\ parResult = None
    /\ parTranscript = Transcript_new

\* prove and verify are not running
PIdle ==
    /\ pc = "idle"
    /\ main_trace = <<>>
    /\ proof_options = [fri_number_of_queries |-> 0, grinding_factor |-> 0]
    /\ pTranscript = Transcript_new
    /\ round1 = None
    /\ round2 = None
    /\ round3 = None
    /\ round4 = None
    /\ stark_proof = None
    /\ tamper = "none"
    /\ vTranscript = Transcript_new
    /\ recovered = None
    /\ checks = <<>>
    /\ verdict = "none"

MInit ==
    /\ FIdle
    /\ TIdle
    /\ PIdle
    /\ CIdle
    /\ SIdle
    /\ mPhase = "built"
    /\ mRows \in MRowLists
    /\ mTree = MerkleTree_build(mRows)
    /\ mPos = 0
    /\ mProof = None
    /\ mQuery = NoQuery
    /\ mVerdict = FALSE
    /\ mLeaf = NoLeaf
    /\ mBatch = NoBatch

MGetProof ==
    \E pos \in MPositions :
        /\ mPhase = "built"
        /\ mPhase' = "asked"
        /\ mPos' = pos
        /\ mProof' = get_proof(mTree, pos)
        /\ mQuery' = NoQuery
        /\ mVerdict' = FALSE
        /\ UNCHANGED <<mRows, mTree, mLeaf, mBatch>>
        /\ UNCHANGED <<pvars, cvars, svars, fvars, tvars>>

MGetLeaf ==
    \E leaf_index \in MPositions :
        /\ mPhase = "built"
        /\ mPhase' = "leaf"
        /\ mLeaf' = [leaf_index |-> leaf_index] @@ get_leaf(mTree, leaf_index)
        /\ UNCHANGED <<mRows, mTree, mPos, mProof, mQuery, mVerdict, mBatch>>
        /\ UNCHANGED <<pvars, cvars, svars, fvars, tvars>>

MGetBatchProof ==
    /\ mPhase = "built"
    /\ mPhase' = "batch"
    /\ \E pos_list \in MBatchLists(mTree) :
           mBatch' = [pos_list |-> pos_list] @@ get_batch_proof(mTree, pos_list)
    /\ UNCHANGED <<mRows, mTree, mPos, mProof, mQuery, mVerdict, mLeaf>>
    /\ UNCHANGED <<pvars, cvars, svars, fvars, tvars>>

MCall(kind, root, index, row, path) ==
    /\ mPhase' = "verified"
    /\ mQuery' = [kind |-> kind, root |-> root, index |-> index, row |-> row, path |-> path]
    /\ mVerdict' = Proof_verify(path, root, index, row)
    /\ UNCHANGED <<mRows, mTree, mPos, mProof, mLeaf, mBatch>>
    /\ UNCHANGED <<pvars, cvars, svars, fvars, tvars>>

MHonestRow == mRows[mPos + 1]

MVerifyHonest ==
    /\ mPhase = "asked"
    /\ mProof.some
    /\ mPos < Len(mRows)
    /\ MCall("honest", mTree.root, mPos, MHonestRow, mProof.val)

MVerifyChangedRow ==
    /\ mPhase = "asked"
    /\ mProof.some
    /\ mPos < Len(mRows)
    /\ \E row \in MRowsSet \cup {MHonestRow \o <<0>>} :
           MCall("row", mTree.root, mPos, row, mProof.val)

MVerifyChangedNode ==
    /\ mPhase = "asked"
    /\ mProof.some
    /\ mPos < Len(mRows)
    /\ \E k \in 1..Len(mProof.val) : \E d \in MDigestPool :
           MCall("node", mTree.root, mPos, MHonestRow, [mProof.val EXCEPT ![k] = d])

MVerifyChangedRoot ==
    /\ mPhase = "asked"
    /\ mProof.some
    /\ mPos < Len(mRows)
    /\ \E d \in MDigestPool :
           MCall("root", d, mPos, MHonestRow, mProof.val)

MNext ==
    \/ MGetProof
    \/ MGetLeaf
    \/ MGetBatchProof
    \/ MVerifyHonest
    \/ MVerifyChangedRow
    \/ MVerifyChangedNode
    \/ MVerifyChangedRoot

SpecMerkle == MInit /\ [][MNext]_vars

(***************************************************************************)
(* C9: Merkle round-trip. For every non-empty list of rows R and every     *)
(* position i < |R|, power of two or not, the proof the tree built from R  *)
(* returns for i exists and verifies against the tree's root, i and R[i].  *)
(***************************************************************************)
C9_RoundTrip ==
    /\ (mPhase \in {"asked", "verified"} /\ mPos < Len(mRows)) => mProof.some
    /\ mQuery.kind = "honest" => mVerdict = TRUE

C9_Witness ==
    /\ mQuery.kind = "honest"
    /\ Len(mRows) = 3
    /\ mPos = 2
    /\ mVerdict = TRUE

(***************************************************************************)
(* C10: with an injective hash, once a proof verifies for (root, i, row),  *)
(* the same call with the row, one node of the authentication path or the  *)
(* root changed returns false.                                             *)
(***************************************************************************)
MHonestVerifies == Proof_verify(mProof.val, mTree.root, mPos, MHonestRow)

MChanged ==
    \/ mQuery.kind = "row" /\ mQuery.row # MHonestRow
    \/ mQuery.kind = "node" /\ mQuery.path # mProof.val
    \/ mQuery.kind = "root" /\ mQuery.root # mTree.root

C10_PerturbationRejected ==
    (mQuery.kind \in {"row", "node", "root"} /\ MHonestVerifies /\ MChanged)
        => mVerdict = FALSE

C10_Witness ==
    /\ mQuery.kind = "node"
    /\ MHonestVerifies
    /\ MChanged
    /\ Len(mQuery.path) = 2
    /\ mVerdict = FALSE

(***************************************************************************)
(* C11: for a tree built from n rows, get_proof for a position i >= n      *)
(* yields no proof, also when i falls among the leaves added by repeating  *)
(* the last row.                                                           *)
(***************************************************************************)
C11_NoProofBeyondRows ==
    (mPhase \in {"asked", "verified"} /\ mPos >= Len(mRows)) => ~mProof.some

(***************************************************************************)
(* C12: neither get_leaf nor get_batch_proof panics on a position outside  *)
(* the node array.                                                         *)
(***************************************************************************)
C12_NoPositionPanics ==
    /\ mLeaf.outcome # "panic"
    /\ mBatch.outcome # "panic"

(***************************************************************************)
(* C13: after build on n >= 1 rows R, with m the smallest power of two     *)
(* >= n, the tree holds 2m-1 nodes, root is node 0, every internal node p  *)
(* is hash(node 2p+1, node 2p+2) and leaf j is hash(R[min(j, n-1)]).       *)
(***************************************************************************)
SmallestPowerOfTwo(n) ==
    CHOOSE m \in 1..(2 * n) :
        /\ is_power_of_two(m)
        /\ m >= n
        /\ \A k \in n..(m - 1) : ~is_power_of_two(k)

C13_BuildShape ==
    mPhase # "off" =>
        LET n == Len(mRows)
            m == SmallestPowerOfTwo(n)
        IN  /\ nodes_len(mTree) = 2 * m - 1
            /\ mTree.root = At(mTree.nodes, 0)
            /\ \A p \in 0..(m - 2) :
                   At(mTree.nodes, p) =
                       hash_new_parent(At(mTree.nodes, 2 * p + 1), At(mTree.nodes, 2 * p + 2))
            /\ \A j \in 0..(m - 1) :
                   At(mTree.nodes, m - 1 + j) =
                       hash_data(At(mRows, IF j < n - 1 THEN j ELSE n - 1))

C13_Witness ==
    /\ mPhase = "asked"
    /\ Len(mRows) = 3
    /\ mRows[1] # mRows[3]
    /\ nodes_len(mTree) = 7

(***************************************************************************)
(* C14: for a set S of leaf positions the batch authentication set holds   *)
(* only siblings of nodes on the leaf-to-root paths from S, suffices to    *)
(* rebuild every individual authentication path (each sibling on a path is *)
(* in the set or computable from S and the set) and holds no node that is  *)
(* computable from S and the rest of the set.  In the 31-node tree leaves  *)
(* 15..24 yield {12, 6} and leaves 15..26 yield {6}.                       *)
(***************************************************************************)
RECURSIVE PathToRoot(_)
PathToRoot(pos) == IF pos = ROOT THEN {} ELSE {pos} \cup PathToRoot(parent_index(pos))

\* pos can be computed from the nodes at the positions of known
RECURSIVE Computable(_, _, _)
Computable(pos, known, len) ==
    \/ pos \in known
    \/ /\ 2 * pos + 2 < len
       /\ Computable(2 * pos + 1, known, len)
       /\ Computable(2 * pos + 2, known, len)

PathSiblings(S) == {sibling_index(pos) : pos \in UNION {PathToRoot(leaf) : leaf \in S}}

C14_BatchAuthSet ==
    (mPhase = "batch" /\ mBatch.pos_list \subseteq MLeafPositions(mTree)) =>
        LET S == mBatch.pos_list
            auth == mBatch.positions
            len == nodes_len(mTree)
        IN  /\ mBatch.outcome = "ok"
            /\ auth \subseteq PathSiblings(S)
            /\ \A pos \in PathSiblings(S) : Computable(pos, S \cup auth, len)
            /\ \A pos \in auth : ~Computable(pos, S \cup (auth \ {pos}), len)
            /\ (len = 31 /\ S = 15..24) => auth = {12, 6}
            /\ (len = 31 /\ S = 15..26) => auth = {6}

C14_Witness ==
    /\ mPhase = "batch"
    /\ nodes_len(mTree) = 31
    /\ mBatch.pos_list = 15..24
    /\ mBatch.positions = {12, 6}

(***************************************************************************)
(* Spec: prove, round by round, then verify, check by check, on the proof  *)
(* as prove returned it or altered in one of the ways of TamperKinds.      *)
(***************************************************************************)
MaxQueries == 1       \* fri_number_of_queries is drawn from 0..MaxQueries
MaxGrinding == 1      \* grinding_factor is drawn from 0..MaxGrinding

\* the Merkle round-trip is not running
MIdle ==
    /\ mPhase = "off"
    /\ mRows = <<>>
    /\ mTree = [root |-> <<>>, nodes |-> <<>>]
    /\ mPos = 0
    /\ mProof = None
    /\ mQuery = NoQuery
    /\ mVerdict = FALSE
    /\ mLeaf = NoLeaf
    /\ mBatch = NoBatch

RECURSIVE fibonacci_trace(_, _)
fibonacci_trace(initial_values, trace_length) ==
    IF trace_length <= 2 THEN SubSeq(initial_values, 1, trace_length)
    ELSE LET ret == fibonacci_trace(initial_values, trace_length - 1)
         IN  Append(ret, FAdd(ret[Len(ret)], ret[Len(ret) - 1]))

HonestTrace == fibonacci_trace(<<pub_inputs.a0, pub_inputs.a1>>, TRACE_LENGTH)

\* the valid trace, and the valid trace with one cell changed
Traces ==
    {HonestTrace} \cup
    {[HonestTrace EXCEPT ![i] = v] : i \in 1..TRACE_LENGTH, v \in 0..(P - 1)}

\* traces of 0 rows and of a number of rows that is no power of two
MalformedTraces ==
    {fibonacci_trace(<<pub_inputs.a0, pub_inputs.a1>>, n) :
        n \in {k \in 0..(2 * TRACE_LENGTH) : ~is_power_of_two(k)}}

StarkProof(round_1_result, round_2_result, round_3_result, round_4_result) ==
    [ lde_trace_merkle_roots |-> round_1_result.lde_trace_merkle_roots,
      trace_ood_frame_evaluations |->
          Frame_new(Flatten(round_3_result.trace_ood_evaluations),
                    Len(round_1_result.trace_polys)),
      composition_poly_root |-> round_2_result.composition_poly_root,
      composition_poly_parts_ood_evaluation |->
          round_3_result.composition_poly_parts_ood_evaluation,
      fri_layers_merkle_roots |-> round_4_result.fri_layers_merkle_roots,
      fri_last_value |-> round_4_result.fri_last_value,
      query_list |-> round_4_result.query_list,
      deep_poly_openings |-> round_4_result.deep_poly_openings,
      \* prove gives the symmetric openings no value
      deep_poly_openings_sym |-> <<>>,
      nonce |-> round_4_result.nonce,
      trace_length |-> TRACE_LENGTH ]

Init ==
    /\ FIdle
    /\ TIdle
    /\ MIdle
    /\ CIdle
    /\ SIdle
    /\ pc = "start"
    /\ main_trace \in Traces \cup MalformedTraces
    /\ proof_options \in [fri_number_of_queries : 0..MaxQueries,
                          grinding_factor : 0..MaxGrinding]
    /\ pTranscript = Transcript_new
    /\ round1 = None
    /\ round2 = None
    /\ round3 = None
    /\ round4 = None
    /\ stark_proof = None
    /\ tamper = "none"
    /\ vTranscript = Transcript_new
    /\ recovered = None
    /\ checks = <<>>
    /\ verdict = "none"

\* prove panics in round 1, at the unwrap of compute_trace_polys
Round1Panics ==
    /\ pc = "start"
    /\ compute_trace_polys_panics(<<main_trace>>)
    /\ pc' = "panicked"
    /\ UNCHANGED <<main_trace, proof_options, pTranscript, round1, round2, round3, round4,
                   stark_proof, tamper, vTranscript, recovered, checks, verdict>>
    /\ UNCHANGED <<mvars, cvars, svars, fvars, tvars>>

Round1 ==
    /\ pc = "start"
    /\ ~compute_trace_polys_panics(<<main_trace>>)
    /\ LET Returned(r) == /\ round1' = r
                           /\ pTranscript' = r.transcript
       IN  Returned(round_1_randomized_air_with_preprocessing(<<main_trace>>, pTranscript))
    /\ pc' = "round2"
    /\ UNCHANGED <<main_trace, proof_options, round2, round3, round4, stark_proof, tamper,
                   vTranscript, recovered, checks, verdict>>
    /\ UNCHANGED <<mvars, cvars, svars, fvars, tvars>>

Round2 ==
    /\ pc = "round2"
    /\ LET beta == sample_field_element(pTranscript)
           num_boundary_constraints == Len(boundary_constraints)
           num_transition_constraints == air_context.num_transition_constraints
           coefficients == [i \in 1..(num_boundary_constraints + num_transition_constraints) |->
                               FPow(beta.value, i - 1)]
           transition_coefficients == SubSeq(coefficients, 1, num_transition_constraints)
           boundary_coefficients ==
               SubSeq(coefficients, num_transition_constraints + 1, Len(coefficients))
           Returned(r) ==
               /\ round2' = [ composition_poly_parts |-> r.composition_poly_parts,
                              lde_composition_poly_evaluations |->
                                  r.lde_composition_poly_evaluations,
                              composition_poly_merkle_tree |-> r.composition_poly_merkle_tree,
                              composition_poly_root |-> r.composition_poly_root,
                              transition_coefficients |-> transition_coefficients,
                              boundary_coefficients |-> boundary_coefficients ]
               /\ pTranscript' = append_bytes(beta.t, r.composition_poly_root)
       IN  Returned(round_2_compute_composition_polynomial(round1, transition_coefficients,
                                                           boundary_coefficients))
    /\ pc' = "round3"
    /\ UNCHANGED <<main_trace, proof_options, round1, round3, round4, stark_proof, tamper,
                   vTranscript, recovered, checks, verdict>>
    /\ UNCHANGED <<mvars, cvars, svars, fvars, tvars>>

Round3 ==
    /\ pc = "round3"
    /\ LET z == sample_z_ood(pTranscript, domain.lde_roots_of_unity_coset,
                             domain.trace_roots_of_unity)
           r == round_3_evaluate_polynomials_in_out_of_domain_element(round1, round2, z.value)
       IN  IF z.ok
           THEN /\ round3' = [ trace_ood_evaluations |-> r.trace_ood_evaluations,
                               composition_poly_parts_ood_evaluation |->
                                   r.composition_poly_parts_ood_evaluation,
                               z |-> z.value ]
                /\ pTranscript' =
                       append_field_elements(
                           append_field_elements(z.t, r.composition_poly_parts_ood_evaluation),
                           Flatten(r.trace_ood_evaluations))
                /\ pc' = "round4"
           ELSE \* sample_z_ood has not returned
                /\ pc' = "hung"
                /\ UNCHANGED <<round3, pTranscript>>
    /\ UNCHANGED <<main_trace, proof_options, round1, round2, round4, stark_proof, tamper,
                   vTranscript, recovered, checks, verdict>>
    /\ UNCHANGED <<mvars, cvars, svars, fvars, tvars>>

Round4 ==
    /\ pc = "round4"
    /\ LET Returned(r) == /\ round4' = r
                           /\ pTranscript' = r.transcript
                           /\ stark_proof' = StarkProof(round1, round2, round3, r)
       IN  Returned(round_4_compute_and_run_fri_on_the_deep_composition_polynomial(
                        proof_options, round1, round2, round3, round3.z, pTranscript))
    /\ pc' = "proved"
    /\ UNCHANGED <<main_trace, proof_options, round1, round2, round3, tamper,
                   vTranscript, recovered, checks, verdict>>
    /\ UNCHANGED <<mvars, cvars, svars, fvars, tvars>>

(***************************************************************************)
(* Proofs that prove did not return.  Every kind keeps the record shape of *)
(* a StarkProof and changes some of its fields.                            *)
(***************************************************************************)
\* the openings at the symmetric indices, as open_deep_composition_poly
\* computes openings
SymOpenings ==
    open_deep_composition_poly(round1, round2,
        [s \in 1..Len(round4.iotas) |->
            round4.iotas[s] + Len(domain.lde_roots_of_unity_coset) \div 2])

EmptyDecommitment ==
    [ layers_auth_paths_sym |-> <<>>, layers_evaluations_sym |-> <<>>,
      layers_evaluations |-> <<>>, layers_auth_paths |-> <<>> ]

FirstLayerOnly(d) ==
    [ layers_auth_paths_sym |-> SubSeq(d.layers_auth_paths_sym, 1, 1),
      layers_evaluations_sym |-> SubSeq(d.layers_evaluations_sym, 1, 1),
      layers_evaluations |-> SubSeq(d.layers_evaluations, 1, 1),
      layers_auth_paths |-> SubSeq(d.layers_auth_paths, 1, 1) ]

ForgedDigest == Digest(<<P>>)

\* the query indices step 1 recovers from the proof prove returned
ReplayedIotas ==
    LET Iotas(c) == IF c.panic THEN <<>> ELSE c.iotas
    IN  Iotas(step_1_replay_rounds_and_recover_challenges(proof_options, stark_proof,
                                                          Transcript_new))

\* openings at the recovered indices and at their symmetric indices
OpeningsAt(iotas, shift) ==
    open_deep_composition_poly(round1, round2, [s \in 1..Len(iotas) |-> iotas[s] + shift])

TamperKinds ==
    { "empty_roots", "no_openings", "short_rows", "empty_frame", "short_query_list",
      "nonce", "sym_openings", "empty_decommitments", "first_layer_only", "forged_opening", "replayed_openings" }

Tampered(kind, n) ==
    LET q == stark_proof.query_list
        with_sym == [stark_proof EXCEPT !.deep_poly_openings_sym = SymOpenings]
        emptied == [with_sym EXCEPT !.query_list = [s \in 1..Len(q) |-> EmptyDecommitment]]
        Replayed(iotas) ==
            [emptied EXCEPT
                !.deep_poly_openings = OpeningsAt(iotas, 0),
                !.deep_poly_openings_sym =
                    OpeningsAt(iotas, Len(domain.lde_roots_of_unity_coset) \div 2)]
    IN  CASE kind = "empty_roots" -> [stark_proof EXCEPT !.lde_trace_merkle_roots = <<>>]
          [] kind = "no_openings" -> [stark_proof EXCEPT !.deep_poly_openings = <<>>]
          [] kind = "short_rows" ->
                 [with_sym EXCEPT
                     !.deep_poly_openings =
                         [s \in 1..Len(@) |-> [@[s] EXCEPT !.lde_trace_evaluations = <<>>]]]
          [] kind = "empty_frame" ->
                 [stark_proof EXCEPT !.trace_ood_frame_evaluations = Frame_new(<<>>, 1)]
          [] kind = "short_query_list" ->
                 [stark_proof EXCEPT !.query_list = SubSeq(q, 1, Len(q) - 1)]
          [] kind = "nonce" -> [stark_proof EXCEPT !.nonce = n]
          [] kind = "sym_openings" -> with_sym
          [] kind = "empty_decommitments" -> emptied
          [] kind = "first_layer_only" ->
                 [with_sym EXCEPT !.query_list = [s \in 1..Len(q) |-> FirstLayerOnly(q[s])]]
          [] kind = "forged_opening" ->
                 [emptied EXCEPT
                     !.deep_poly_openings =
                         [s \in 1..Len(@) |->
                             [@[s] EXCEPT !.lde_composition_poly_proof[1] = ForgedDigest]]]
          [] kind = "replayed_openings" -> Replayed(ReplayedIotas)

Tamper ==
    /\ pc = "proved"
    /\ tamper = "none"
    /\ \E kind \in TamperKinds : \E n \in Nonces :
           /\ (kind # "nonce") => n = 0
           /\ LET Handed(proof) == /\ proof # stark_proof
                                    /\ stark_proof' = proof
              IN  Handed(Tampered(kind, n))
           /\ tamper' = kind
    /\ UNCHANGED <<pc, main_trace, proof_options, pTranscript, round1, round2, round3, round4,
                   vTranscript, recovered, checks, verdict>>
    /\ UNCHANGED <<mvars, cvars, svars, fvars, tvars>>

(***************************************************************************)
(* verify (provers/stark/src/verifier.rs): the query-count check, step 1,  *)
(* the grinding check, steps 2, 3 and 4, each an action.                   *)
(***************************************************************************)
\* "Verify there are enough queries"
enough_queries(proof, options) ==
    ~(Len(proof.query_list) < options.fri_number_of_queries)

grinding_always_satisfied(challenges, options) == TRUE

\* "verify grinding"
grinding_satisfied(challenges, options) ==
    ~(challenges.leading_zeros_count < options.grinding_factor)

\* A check that fails ends verify with false at once.
verify_after_check_ignoring_failure(outcome, next) ==
    IF outcome = "panic" THEN [pc |-> "done", verdict |-> "panic"]
    ELSE IF next = "done" THEN [pc |-> "done", verdict |-> "true"]
    ELSE [pc |-> next, verdict |-> "none"]

verify_after_check(outcome, next) ==
    IF outcome = "panic" THEN [pc |-> "done", verdict |-> "panic"]
    ELSE IF outcome = "fail" THEN [pc |-> "done", verdict |-> "false"]
    ELSE IF next = "done" THEN [pc |-> "done", verdict |-> "true"]
    ELSE [pc |-> next, verdict |-> "none"]

Checked(name, outcome, next) ==
    /\ checks' = Append(checks, [name |-> name, outcome |-> outcome])
    /\ pc' = verify_after_check(outcome, next).pc
    /\ verdict' = verify_after_check(outcome, next).verdict

VerifyQueryCount ==
    /\ pc = "proved"
    /\ Checked("queries",
               IF enough_queries(stark_proof, proof_options) THEN "ok" ELSE "fail",
               "step1")
    /\ UNCHANGED <<main_trace, proof_options, pTranscript, round1, round2, round3, round4,
                   stark_proof, tamper, vTranscript, recovered>>
    /\ UNCHANGED <<mvars, cvars, svars, fvars, tvars>>

Step1 ==
    /\ pc = "step1"
    /\ LET Returned(c) ==
               IF c.panic
               THEN /\ Checked("step1", "panic", "grinding")
                    /\ UNCHANGED <<recovered, vTranscript>>
               ELSE IF ~c.z_found
               THEN \* sample_z_ood has not returned
                    /\ pc' = "hung"
                    /\ UNCHANGED <<recovered, vTranscript, checks, verdict>>
               ELSE /\ Checked("step1", "ok", "grinding")
                    /\ recovered' = c
                    /\ vTranscript' = c.transcript
       IN  Returned(step_1_replay_rounds_and_recover_challenges(proof_options, stark_proof,
                                                                vTranscript))
    /\ UNCHANGED <<main_trace, proof_options, pTranscript, round1, round2, round3, round4,
                   stark_proof, tamper>>
    /\ UNCHANGED <<mvars, cvars, svars, fvars, tvars>>

GrindingCheck ==
    /\ pc = "grinding"
    /\ Checked("grinding",
               IF grinding_satisfied(recovered, proof_options) THEN "ok" ELSE "fail",
               "step2")
    /\ UNCHANGED <<main_trace, proof_options, pTranscript, round1, round2, round3, round4,
                   stark_proof, tamper, vTranscript, recovered>>
    /\ UNCHANGED <<mvars, cvars, svars, fvars, tvars>>

Step2 ==
    /\ pc = "step2"
    /\ Checked("step2", step_2_verify_claimed_composition_polynomial(stark_proof, recovered),
               "step3")
    /\ UNCHANGED <<main_trace, proof_options, pTranscript, round1, round2, round3, round4,
                   stark_proof, tamper, vTranscript, recovered>>
    /\ UNCHANGED <<mvars, cvars, svars, fvars, tvars>>

Step3 ==
    /\ pc = "step3"
    /\ Checked("step3", step_3_verify_fri(stark_proof, recovered), "step4")
    /\ UNCHANGED <<main_trace, proof_options, pTranscript, round1, round2, round3, round4,
                   stark_proof, tamper, vTranscript, recovered>>
    /\ UNCHANGED <<mvars, cvars, svars, fvars, tvars>>

Step4 ==
    /\ pc = "step4"
    /\ Checked("step4", step_4_verify_trace_and_composition_openings(stark_proof, recovered),
               "done")
    /\ UNCHANGED <<main_trace, proof_options, pTranscript, round1, round2, round3, round4,
                   stark_proof, tamper, vTranscript, recovered>>
    /\ UNCHANGED <<mvars, cvars, svars, fvars, tvars>>

Next ==
    \/ Round1Panics
    \/ Round1
    \/ Round2
    \/ Round3
    \/ Round4
    \/ Tamper
    \/ VerifyQueryCount
    \/ Step1
    \/ GrindingCheck
    \/ Step2
    \/ Step3
    \/ Step4

Spec == Init /\ [][Next]_vars

(***************************************************************************)
(* SpecParallel: the parallel regions of prove with the feature "parallel" *)
(* (rayon), under every scheduling of the workers.  A parallel map writes  *)
(* the result of item i to slot i, in any order of the items; a parallel   *)
(* fold is split into pieces of consecutive items, each piece folded from  *)
(* the identity, and adjacent finished pieces are reduced.                 *)
(***************************************************************************)
MaxColumns == 3       \* the trace has 1..MaxColumns columns

ParColumnSet == {fibonacci_trace(<<a0, 1>>, TRACE_LENGTH) : a0 \in 0..2}

ParAllSlotsFilled == \A i \in 1..Len(parSlots) : parSlots[i].some

ParCollected == [i \in 1..Len(parSlots) |-> parSlots[i].val]

ParEmptySlots == [i \in 1..Len(parColumns) |-> None]

ParInit ==
    /\ FIdle
    /\ TIdle
    /\ MIdle
    /\ PIdle
    /\ SIdle
    /\ parPhase = "interpolate"
    /\ parColumns \in UNION {[1..n -> ParColumnSet] : n \in 1..MaxColumns}
    /\ parSlots = ParEmptySlots
    /\ parPolys = <<>>
    /\ parTerms = None
    /\ parJobs = <<>>
    /\ parResult = None
    /\ parTranscript = Transcript_new

\* compute_trace_polys: one item of columns.par_iter().map(interpolate_fft)
ParInterpolate ==
    \E i \in 1..Len(parColumns) :
        /\ parPhase = "interpolate"
        /\ ~parSlots[i].some
        /\ parSlots' = [parSlots EXCEPT ![i] = Some(interpolate_fft(parColumns[i]))]
        /\ UNCHANGED <<parPhase, parColumns, parPolys, parTerms, parJobs, parResult,
                       parTranscript>>
        /\ UNCHANGED <<mvars, pvars, svars, fvars, tvars>>

\* compute_trace_polys: collect(), when every item is done
ParCollectPolys ==
    /\ parPhase = "interpolate"
    /\ ParAllSlotsFilled
    /\ parPhase' = "evaluate"
    /\ parPolys' = ParCollected
    /\ parSlots' = ParEmptySlots
    /\ UNCHANGED <<parColumns, parTerms, parJobs, parResult, parTranscript>>
    /\ UNCHANGED <<mvars, pvars, svars, fvars, tvars>>

\* compute_lde_trace_evaluations: one item of trace_polys.par_iter().map(..)
ParEvaluate ==
    \E i \in 1..Len(parColumns) :
        /\ parPhase = "evaluate"
        /\ ~parSlots[i].some
        /\ parSlots' = [parSlots EXCEPT ![i] =
               Some(evaluate_polynomial_on_lde_domain(parPolys[i], domain.blowup_factor,
                        domain.interpolation_domain_size, domain.coset_offset))]
        /\ UNCHANGED <<parPhase, parColumns, parPolys, parTerms, parJobs, parResult,
                       parTranscript>>
        /\ UNCHANGED <<mvars, pvars, svars, fvars, tvars>>

\* What prove does between the parallel maps of round 1 and the parallel
\* fold of round 4 with the trace polynomials: the commitment to the LDE of
\* the trace is appended, z is sampled, the frame at z is appended and the
\* gammas of the trace terms are sampled.
ParSequentialPart(trace_polys, lde_trace_evaluations, transcript) ==
    LET Sampled(z, trace_ood_evaluations, gammas) ==
            [ lde_trace_evaluations |-> lde_trace_evaluations,
              z |-> z,
              trace_ood_evaluations |-> trace_ood_evaluations,
              trace_terms_gammas |-> gammas.values,
              transcript |-> gammas.t ]
        Evaluated(z, trace_ood_evaluations) ==
            Sampled(z.value, trace_ood_evaluations,
                    batch_sample_challenges(
                        Len(air_context.transition_offsets) * Len(trace_polys),
                        append_field_elements(z.t, Flatten(trace_ood_evaluations))))
        Drawn(z) ==
            Evaluated(z, Frame_get_trace_evaluations(trace_polys, z.value,
                             air_context.transition_offsets, domain.trace_primitive_root))
    IN  Drawn(sample_z_ood(
                  append_bytes(transcript,
                               batch_commit(rows_from_cols(lde_trace_evaluations)).root),
                  domain.lde_roots_of_unity_coset, domain.trace_roots_of_unity))

ParJob(lo, hi, next, acc) == [lo |-> lo, hi |-> hi, next |-> next, acc |-> acc]

\* compute_lde_trace_evaluations: collect(); then the sequential part up to
\* the parallel fold of compute_deep_composition_poly
ParCommit ==
    /\ parPhase = "evaluate"
    /\ ParAllSlotsFilled
    /\ LET Returned(r) == /\ parTerms' = r
                           /\ parTranscript' = r.transcript
       IN  Returned(ParSequentialPart(parPolys, ParCollected, parTranscript))
    /\ parPhase' = "fold"
    /\ parSlots' = <<>>
    /\ parJobs' = <<ParJob(1, Len(parPolys), 1, Polynomial_zero)>>
    /\ UNCHANGED <<parColumns, parPolys, parResult>>
    /\ UNCHANGED <<mvars, pvars, svars, fvars, tvars>>

\* par_iter().enumerate().fold(..): a piece not yet begun is split in two
ParSplit ==
    \E k \in 1..Len(parJobs) : \E mid \in parJobs[k].lo..(parJobs[k].hi - 1) :
        /\ parPhase = "fold"
        /\ parJobs[k].next = parJobs[k].lo
        /\ parJobs' = SubSeq(parJobs, 1, k - 1)
                          \o <<ParJob(parJobs[k].lo, mid, parJobs[k].lo, Polynomial_zero),
                               ParJob(mid + 1, parJobs[k].hi, mid + 1, Polynomial_zero)>>
                          \o SubSeq(parJobs, k + 1, Len(parJobs))
        /\ UNCHANGED <<parPhase, parColumns, parSlots, parPolys, parTerms, parResult,
                       parTranscript>>
        /\ UNCHANGED <<mvars, pvars, svars, fvars, tvars>>

\* fold: the next item of a piece is folded into the piece's accumulator
ParFold ==
    \E k \in 1..Len(parJobs) :
        /\ parPhase = "fold"
        /\ parJobs[k].next <= parJobs[k].hi
        /\ parJobs' = [parJobs EXCEPT ![k] =
               ParJob(parJobs[k].lo, parJobs[k].hi, parJobs[k].next + 1,
                      compute_trace_term(parJobs[k].acc, parJobs[k].next - 1,
                          parPolys[parJobs[k].next], Len(parTerms.trace_ood_evaluations),
                          parTerms.trace_terms_gammas, parTerms.trace_ood_evaluations,
                          air_context.transition_offsets, parTerms.z,
                          domain.trace_primitive_root))]
        /\ UNCHANGED <<parPhase, parColumns, parSlots, parPolys, parTerms, parResult,
                       parTranscript>>
        /\ UNCHANGED <<mvars, pvars, svars, fvars, tvars>>

\* reduce(|| Polynomial::zero(), |a, b| a + b): two adjacent finished pieces
ParReduce ==
    \E k \in 1..(Len(parJobs) - 1) :
        /\ parPhase = "fold"
        /\ parJobs[k].next > parJobs[k].hi
        /\ parJobs[k + 1].next > parJobs[k + 1].hi
        /\ parJobs' = SubSeq(parJobs, 1, k - 1)
                          \o <<ParJob(parJobs[k].lo, parJobs[k + 1].hi, parJobs[k + 1].hi + 1,
                                      PolyAdd(parJobs[k].acc, parJobs[k + 1].acc))>>
                          \o SubSeq(parJobs, k + 2, Len(parJobs))
        /\ UNCHANGED <<parPhase, parColumns, parSlots, parPolys, parTerms, parResult,
                       parTranscript>>
        /\ UNCHANGED <<mvars, pvars, svars, fvars, tvars>>

\* the reduce returns trace_terms
ParJoin ==
    /\ parPhase = "fold"
    /\ Len(parJobs) = 1
    /\ parJobs[1].next > parJobs[1].hi
    /\ parPhase' = "done"
    /\ parResult' = Some(PolyAdd(Polynomial_zero, parJobs[1].acc))
    /\ parJobs' = <<>>
    /\ UNCHANGED <<parColumns, parSlots, parPolys, parTerms, parTranscript>>
    /\ UNCHANGED <<mvars, pvars, svars, fvars, tvars>>

ParNext ==
    \/ ParInterpolate
    \/ ParCollectPolys
    \/ ParEvaluate
    \/ ParCommit
    \/ ParSplit
    \/ ParFold
    \/ ParReduce
    \/ ParJoin

SpecParallel == ParInit /\ [][ParNext]_vars

(***************************************************************************)
(* SpecSample: Domain::new on a trace length, a blowup factor and a coset  *)
(* offset, then sample_z_ood on that domain, one step per turn of its      *)
(* loop.                                                                   *)
(***************************************************************************)
MaxSeed == 15         \* sample_z_ood is called with a transcript state in 0..MaxSeed

\* the powers of two whose product has a root of unity in the field
ZOptions ==
    {[trace_length |-> Pow2(a), blowup_factor |-> Pow2(b), coset_offset |-> c] :
        a \in 1..(TWO_ADICITY - 1), b \in 0..(TWO_ADICITY - 2), c \in {1, COSET_OFFSET}}

ZInit ==
    /\ FIdle
    /\ TIdle
    /\ MIdle
    /\ PIdle
    /\ CIdle
    /\ zPhase = "start"
    /\ zOptions \in {o \in ZOptions : o.trace_length * o.blowup_factor <= Pow2(TWO_ADICITY)}
    /\ zDomain = None
    /\ zSeed \in 0..MaxSeed
    /\ zTranscript = zSeed
    /\ zDraws = <<>>
    /\ zValue = None

ZDomainNew ==
    /\ zPhase = "start"
    /\ zPhase' = "sampling"
    /\ zDomain' = Domain_new(zOptions.trace_length, zOptions.blowup_factor,
                             zOptions.coset_offset)
    /\ UNCHANGED <<zOptions, zSeed, zTranscript, zDraws, zValue>>
    /\ UNCHANGED <<mvars, pvars, cvars, fvars, tvars>>

\* one turn of the loop of sample_z_ood: transcript_to_field draws the
\* candidate from the transcript, which moves on
ZDraw ==
    /\ zPhase = "sampling"
    /\ Len(zDraws) < MaxZTries
    /\ LET Drawn(drawn) ==
               /\ zTranscript' = drawn.h
               /\ zDraws' = Append(zDraws, drawn.value)
               /\ IF sample_z_outside(drawn.value, zDomain.lde_roots_of_unity_coset,
                                      zDomain.trace_roots_of_unity)
                  THEN zPhase' = "returned" /\ zValue' = Some(drawn.value)
                  ELSE UNCHANGED <<zPhase, zValue>>
       IN  Drawn(transcript_to_field(zTranscript))
    /\ UNCHANGED <<zOptions, zDomain, zSeed>>
    /\ UNCHANGED <<mvars, pvars, cvars, fvars, tvars>>

ZNext ==
    \/ ZDomainNew
    \/ ZDraw

SpecSample == ZInit /\ [][ZNext]_vars

\* sample_z_ood is a loop of one synchronous call: while it can take its next
\* turn it does
SpecSampleFair == ZInit /\ [][ZNext]_vars /\ WF_vars(ZDraw)

(***************************************************************************)
(* C1: end-to-end completeness.  For the trace that satisfies the AIR and  *)
(* every ProofOptions, verify returns true on the proof prove returned.    *)
(***************************************************************************)
C1_Completeness ==
    (pc = "done" /\ tamper = "none" /\ main_trace = HonestTrace) => verdict = "true"

(***************************************************************************)
(* C2: on a proof prove returned, step 1 performs the transcript           *)
(* operations of prover rounds 1-4, in the same order and with the same    *)
(* data, and every challenge it recovers is the one the prover used.       *)
(***************************************************************************)
C2_SameTranscript ==
    (tamper = "none" /\ recovered # None) =>
        /\ vTranscript.log = pTranscript.log
        /\ recovered.z = round3.z
        /\ recovered.boundary_coeffs = round2.boundary_coefficients
        /\ recovered.transition_coeffs = round2.transition_coefficients
        /\ recovered.gammas = round4.gammas
        /\ Flatten(recovered.trace_term_coeffs) = round4.trace_poly_coeffients
        /\ recovered.zetas = round4.zetas
        /\ recovered.iotas = round4.iotas

C4_ShortCircuit ==
    /\ verdict = "true" =>
           /\ enough_queries(stark_proof, proof_options)
           /\ grinding_satisfied(recovered, proof_options)
           /\ step_2_verify_claimed_composition_polynomial(stark_proof, recovered) = "ok"
           /\ step_3_verify_fri(stark_proof, recovered) = "ok"
           /\ step_4_verify_trace_and_composition_openings(stark_proof, recovered) = "ok"
    /\ \A i \in 1..Len(checks) :
           checks[i].outcome = "fail" =>
               /\ i = Len(checks)
               /\ pc = "done"
               /\ verdict = "false"

C4_Witness ==
    /\ pc = "done"
    /\ verdict = "false"
    /\ proof_options.fri_number_of_queries >= 1
    /\ Len(checks) = 4
    /\ checks[4] = [name |-> "step2", outcome |-> "fail"]
    /\ \A i \in 1..3 : checks[i].outcome = "ok"

(***************************************************************************)
(* C5: for every StarkProof value, well-formed or not, verify returns a    *)
(* boolean; it never panics.                                               *)
(***************************************************************************)
C5_NeverPanics == verdict # "panic"

(***************************************************************************)
(* C6: a proof whose query_list has fewer entries than                     *)
(* fri_number_of_queries, or whose nonce yields fewer leading zero bits    *)
(* than grinding_factor, is rejected: verify returns false.                *)
(***************************************************************************)
C6_TooFewQueriesOrZerosRejected ==
    pc = "done" =>
        /\ Len(stark_proof.query_list) < proof_options.fri_number_of_queries
               => verdict = "false"
        /\ (recovered # None
            /\ recovered.leading_zeros_count < proof_options.grinding_factor)
               => verdict = "false"

C6_Witness ==
    /\ pc = "done"
    /\ tamper = "nonce"
    /\ main_trace = HonestTrace
    /\ stark_proof.nonce # round4.nonce
    /\ recovered.leading_zeros_count < proof_options.grinding_factor
    /\ verdict = "false"

(***************************************************************************)
(* C7: step 3 accepts only if every query's decommitment supplies, for     *)
(* every committed layer of fri_layers_merkle_roots, the evaluation and    *)
(* the authentication path at the index and at the symmetric index; a      *)
(* decommitment with entries for fewer layers is not accepted.             *)
(***************************************************************************)
C7_EveryLayerOpened ==
    (\E i \in 1..Len(checks) : checks[i] = [name |-> "step3", outcome |-> "ok"]) =>
        \A s \in 1..Len(stark_proof.query_list) :
            LET d == stark_proof.query_list[s]
                layers == Len(stark_proof.fri_layers_merkle_roots)
            IN  /\ Len(d.layers_auth_paths) >= layers
                /\ Len(d.layers_evaluations) >= layers
                /\ Len(d.layers_auth_paths_sym) >= layers
                /\ Len(d.layers_evaluations_sym) >= layers

(***************************************************************************)
(* C8: for every sampled query index iota, the proof prove returned holds  *)
(* Merkle openings of the LDE trace row and of the composition-part row    *)
(* at iota and at the symmetric index (iota + N/2) mod N.                  *)
(***************************************************************************)
C8_OpeningsAtBothIndexes ==
    (stark_proof # None /\ tamper = "none") =>
        LET N == Len(domain.lde_roots_of_unity_coset)
            iotas == round4.iotas
            opened(o, index) ==
                /\ \A m \in 1..Len(stark_proof.lde_trace_merkle_roots) :
                       Proof_verify(o.lde_trace_merkle_proofs[m],
                                    stark_proof.lde_trace_merkle_roots[m], index,
                                    o.lde_trace_evaluations)
                /\ Proof_verify(o.lde_composition_poly_proof,
                                stark_proof.composition_poly_root, index,
                                o.lde_composition_poly_parts_evaluation)
        IN  /\ Len(stark_proof.deep_poly_openings) = Len(iotas)
            /\ Len(stark_proof.deep_poly_openings_sym) = Len(iotas)
            /\ \A s \in 1..Len(iotas) :
                   /\ opened(stark_proof.deep_poly_openings[s], iotas[s] % N)
                   /\ opened(stark_proof.deep_poly_openings_sym[s],
                             (iotas[s] + N \div 2) % N)


(***************************************************************************)
(* C15: in every proof prove produces, the polynomial left after the last  *)
(* fold of the FRI commit phase is a constant, fri_last_value is that      *)
(* constant, and no non-zero higher coefficient is dropped.                *)
(***************************************************************************)
C15_LastPolyConstant ==
    round4 # None =>
        /\ Len(round4.last_poly) <= 1
        /\ \A k \in 1..Len(round4.last_poly) : Coeff(round4.last_poly, k) = 0
        /\ round4.fri_last_value = Coeff(round4.last_poly, 0)
        /\ stark_proof.fri_last_value = round4.fri_last_value

(***************************************************************************)
(* C16: prove never panics on a malformed trace: for a trace of 0 rows or  *)
(* of a number of rows that is no power of two, the FFT failure of the     *)
(* round is returned as Err(ProvingError).                                 *)
(***************************************************************************)
C16_FailureReturnedAsErr ==
    /\ pc # "panicked"
    /\ (pc # "start" /\ main_trace \in MalformedTraces) => pc = "err"

(***************************************************************************)
(* C17: with parallel execution prove computes what sequential execution   *)
(* computes on the same inputs, under every scheduling: the trace          *)
(* polynomials, the LDE evaluations and the trace terms of the DEEP        *)
(* composition polynomial are those of the sequential code, the transcript *)
(* is the one the sequential code leaves, and no step inside a parallel    *)
(* region touches the transcript.                                          *)
(***************************************************************************)
\* the sequential code on the same columns
SeqRound1 == interpolate_and_commit(parColumns, Transcript_new)

SeqTerms == ParSequentialPart(SeqRound1.trace_polys, SeqRound1.lde_trace_evaluations,
                              Transcript_new)

\* compute_deep_composition_poly without composition polynomial parts: the
\* sequential fold of the trace terms
SeqTraceTerms ==
    compute_deep_composition_poly(SeqRound1.trace_polys,
        [composition_poly_parts |-> <<>>],
        [trace_ood_evaluations |-> SeqTerms.trace_ood_evaluations,
         composition_poly_parts_ood_evaluation |-> <<>>],
        SeqTerms.z, domain.trace_primitive_root, <<>>, SeqTerms.trace_terms_gammas)

ParAsSequential ==
    /\ parPhase \in {"evaluate", "fold", "done"} => parPolys = compute_trace_polys(parColumns)
    /\ parPhase \in {"fold", "done"} =>
           /\ parTerms.lde_trace_evaluations = compute_lde_trace_evaluations(parPolys)
           /\ parTerms = SeqTerms
           /\ parTranscript = SeqTerms.transcript
    /\ parPhase = "done" => parResult = Some(SeqTraceTerms)

ParRegionKeepsTranscript ==
    (parPhase \in {"interpolate", "evaluate", "fold"} /\ parPhase' = parPhase)
        => parTranscript' = parTranscript

C17_ParallelAsSequential == [](ParAsSequential) /\ [][ParRegionKeepsTranscript]_vars

C17_Witness ==
    /\ parPhase = "fold"
    /\ Len(parJobs) = 3
    /\ \A k \in 1..3 : parJobs[k].next > parJobs[k].hi /\ parJobs[k].acc # Polynomial_zero
    /\ parColumns[1] # parColumns[2]

(***************************************************************************)
(* C18: the value sample_z_ood returns is an element neither of the LDE    *)
(* coset nor of the trace roots of unity passed to it.                     *)
(***************************************************************************)
C18_SampledOutsideDomains ==
    zPhase = "returned" =>
        /\ zValue.val \notin Range(zDomain.lde_roots_of_unity_coset)
        /\ zValue.val \notin Range(zDomain.trace_roots_of_unity)
        /\ LET whole == sample_z_ood([log |-> <<>>, h |-> zSeed],
                                     zDomain.lde_roots_of_unity_coset,
                                     zDomain.trace_roots_of_unity)
           IN  whole.ok /\ whole.value = zValue.val /\ whole.t.h = zTranscript

C18_Witness ==
    /\ zPhase = "returned"
    /\ Len(zDraws) >= 3
    /\ zDraws[1] \in Range(zDomain.trace_roots_of_unity)
    /\ zDraws[1] \notin Range(zDomain.lde_roots_of_unity_coset)
    /\ zDraws[2] \in Range(zDomain.lde_roots_of_unity_coset)

(***************************************************************************)
(* C19: sample_z_ood terminates. Every candidate, the rejected ones        *)
(* included, moves the transcript to a state it was not in before during   *)
(* the call, so no draw is the previous draw repeated; and whenever one of *)
(* the draws ahead of the transcript lies outside both excluded sets, the  *)
(* loop returns.                                                           *)
(***************************************************************************)
\* the transcript after k more challenges
RECURSIVE ChallengesAhead(_, _)
ChallengesAhead(h, k) ==
    IF k = 0 THEN h ELSE ChallengesAhead(Absorb(h, TranscriptOp.sample_z_ood), k - 1)

\* one of the draws ahead lies outside both excluded sets
ZDrawable ==
    \E k \in 1..(MaxZTries - Len(zDraws)) :
        LET value == ChallengesAhead(zTranscript, k) % P
        IN  /\ value \notin Range(zDomain.lde_roots_of_unity_coset)
            /\ value \notin Range(zDomain.trace_roots_of_unity)

ZEveryDrawFresh ==
    zPhase \in {"sampling", "returned"} =>
        /\ zTranscript = ChallengesAhead(zSeed, Len(zDraws))
        /\ \A k \in 0..(Len(zDraws) - 1) : ChallengesAhead(zSeed, k) # zTranscript

C19_SamplingTerminates ==
    /\ [](ZEveryDrawFresh)
    /\ [][zDraws' # zDraws => zTranscript' # zTranscript]_vars
    /\ ((zPhase = "sampling" /\ ZDrawable) ~> (zPhase = "returned"))

C19_Witness ==
    /\ zPhase = "returned"
    /\ Len(zDraws) >= 4
    /\ \E i, j \in 1..(Len(zDraws) - 1) : i < j /\ zDraws[i] = zDraws[j]

(***************************************************************************)
(* C20: for a Domain derived from a power-of-two trace length and blowup   *)
(* factor (8, 2 and coset offset 3 among them), with g the primitive root  *)
(* of order trace_length * blowup_factor: lde_roots_of_unity_coset[i] =    *)
(* coset_offset * g^i for all i < trace_length * blowup_factor,            *)
(* trace_primitive_root = g^blowup_factor, root_order = log2(trace_length) *)
(* and lde_root_order = log2(interpolation_domain_size * blowup_factor).   *)
(***************************************************************************)
\* offset * g^i by i multiplications
RECURSIVE CosetElement(_, _, _)
CosetElement(offset, g, i) == IF i = 0 THEN offset ELSE FMul(CosetElement(offset, g, i - 1), g)

C20_DomainConsistency ==
    zDomain # None =>
        LET n == zOptions.trace_length * zOptions.blowup_factor
            g == get_primitive_root_of_unity(trailing_zeros(n))
        IN  /\ CosetElement(1, g, n) = 1
            /\ n > 1 => CosetElement(1, g, n \div 2) # 1
            /\ Len(zDomain.lde_roots_of_unity_coset) = n
            /\ \A i \in 0..(n - 1) :
                   At(zDomain.lde_roots_of_unity_coset, i)
                       = CosetElement(zOptions.coset_offset, g, i)
            /\ zDomain.trace_primitive_root = CosetElement(1, g, zOptions.blowup_factor)
            /\ Pow2(zDomain.root_order) = zOptions.trace_length
            /\ Pow2(zDomain.lde_root_order)
                   = zDomain.interpolation_domain_size * zOptions.blowup_factor

C20_Witness ==
    /\ zDomain # None
    /\ zOptions = [trace_length |-> 8, blowup_factor |-> 2, coset_offset |-> 3]
    /\ Len(zDomain.lde_roots_of_unity_coset) = 16
    /\ zDomain.root_order = 3

(***************************************************************************)
(* C21: the out-of-domain values are appended to the transcript in the     *)
(* same order by the prover (round 3) and by the verifier (step 1): the    *)
(* appends that follow the sampling of z are the same on both sides, one   *)
(* after the other.                                                        *)
(***************************************************************************)
\* the index in the log of the sampling of z (0 if z was not sampled)
RECURSIVE IndexOfZ(_, _)
IndexOfZ(log, k) ==
    IF k > Len(log) THEN 0
    ELSE IF log[k] = <<TranscriptOp.sample_z_ood>> THEN k
    ELSE IndexOfZ(log, k + 1)

\* the field elements appended after z was sampled and before the next sample
RECURSIVE AppendsFrom(_, _)
AppendsFrom(log, k) ==
    IF k > Len(log) \/ Head(log[k]) # TranscriptOp.append_field_element THEN <<>>
    ELSE <<log[k][2]>> \o AppendsFrom(log, k + 1)

OodAppends(t) ==
    IF IndexOfZ(t.log, 1) = 0 THEN <<>> ELSE AppendsFrom(t.log, IndexOfZ(t.log, 1) + 1)

C21_SameOodOrder ==
    (tamper = "none" /\ recovered # None) =>
        /\ OodAppends(pTranscript) =
               round3.composition_poly_parts_ood_evaluation
                   \o Flatten(round3.trace_ood_evaluations)
        /\ OodAppends(vTranscript) = OodAppends(pTranscript)

(***************************************************************************)
(* C22: in the FRI commit phase, on the prover side and in the replay of   *)
(* the verifier alike, the commitment to layer k is appended, then zeta_k  *)
(* is sampled; both sides sample the same number of folding challenges,    *)
(* and fri_last_value is appended after the last challenge was sampled.    *)
(***************************************************************************)
\* the indexes in the log of the operations of one kind, in order
OpsOfKind(log, kind) == SelectSeq([k \in 1..Len(log) |-> k], LAMBDA k : Head(log[k]) = kind)

\* The commitments before that to layer 0 are those of the trace and of the
\* composition polynomial; fri_last_value is the last field element
\* appended; the folding challenges are the last samples before it.  The
\* challenge of layer k is sampled after the commitment to layer k, before
\* the commitment to layer k + 1 and before fri_last_value.
ChallengesFollowCommitments(t, zetas, merkle_roots) ==
    LET commitments == OpsOfKind(t.log, TranscriptOp.append_bytes)
        elements == OpsOfKind(t.log, TranscriptOp.append_field_element)
        last_value == elements[Len(elements)]
        samples == SelectSeq(OpsOfKind(t.log, TranscriptOp.sample_field_element),
                             LAMBDA k : k < last_value)
        challenge(k) == samples[Len(samples) - Len(zetas) + k]
    IN  /\ Len(zetas) <= Len(samples)
        /\ Len(zetas) = Len(merkle_roots)
        /\ \A k \in 1..Len(zetas) :
               /\ commitments[2 + k] < challenge(k)
               /\ k < Len(merkle_roots) => challenge(k) < commitments[3 + k]
        /\ last_value = challenge(Len(zetas)) + 1

GrindingAppends(t) ==
    LET elements == OpsOfKind(t.log, TranscriptOp.append_field_element)
        last_value == elements[Len(elements)]
    IN  SelectSeq(SubSeq(t.log, last_value + 1, Len(t.log)),
                  LAMBDA op : Head(op) = TranscriptOp.append_bytes)

C23_NoGrindingConsistent ==
    (tamper = "none" /\ recovered # None /\ proof_options.grinding_factor = 0) =>
        /\ grinding_satisfied(recovered, proof_options)
        /\ GrindingAppends(vTranscript) = GrindingAppends(pTranscript)
        /\ vTranscript.h = pTranscript.h
        /\ recovered.iotas = round4.iotas

(***************************************************************************)
(* C24: for a proof prove returned and every query index iota, the value   *)
(* step 3 reconstructs from the opened rows and the round-3 values equals  *)
(* p_0(upsilon), the DEEP composition polynomial of the prover at          *)
(* upsilon = lde_roots_of_unity_coset[iota], and likewise at the symmetric *)
(* point; every term carries the same coefficient on both sides.           *)
(***************************************************************************)
\* what step 3 reconstructs at one point from one opened row
ReconstructedAt(challenges, evaluation_point, opening) ==
    reconstruct_deep_composition_poly_evaluation(stark_proof, evaluation_point,
        get_primitive_root_of_unity(domain.root_order), challenges,
        opening.lde_trace_evaluations, opening.lde_composition_poly_parts_evaluation)

\* the reconstruction agrees with p_0 at every index the prover opened and
\* at its symmetric index
ReconstructsDeepPoly(challenges) ==
    \A s \in 1..Len(round4.iotas) :
        /\ ReconstructedAt(challenges, query_challenge_to_evaluation_point(round4.iotas[s]),
                           stark_proof.deep_poly_openings[s])
               = Some(evaluate(round4.deep_composition_poly,
                               query_challenge_to_evaluation_point(round4.iotas[s])))
        /\ ReconstructedAt(challenges, query_challenge_to_evaluation_point_sym(round4.iotas[s]),
                           SymOpenings[s])
               = Some(evaluate(round4.deep_composition_poly,
                               query_challenge_to_evaluation_point_sym(round4.iotas[s])))

C24_DeepReconstruction ==
    (tamper = "none" /\ recovered # None) =>
        /\ recovered.gammas = round4.gammas
        /\ Flatten(recovered.trace_term_coeffs) = round4.trace_poly_coeffients
        /\ ReconstructsDeepPoly(recovered)

(***************************************************************************)
(* C25: for every query index iota and every committed FRI layer k, the    *)
(* verifier checks the openings of the layer at the two positions at which *)
(* the query phase of the prover opened it, iota mod n_k and               *)
(* (iota + n_k/2) mod n_k with n_k the domain size of layer k; the two     *)
(* positions are distinct.                                                 *)
(***************************************************************************)
\* the positions fri_query_phase opens in a layer
FriQueryPhaseIndexes(iota, layer) ==
    [index |-> iota % layer.domain_size,
     index_sym |-> (iota + layer.domain_size \div 2) % layer.domain_size]

C25_LayerOpeningPositions ==
    round4 # None =>
        \A iota \in 0..(Len(domain.lde_roots_of_unity_coset) - 1) :
            \A k \in 1..Len(round4.fri_layers) :
                LET checked == fri_layer_opening_indexes(iota, fri_layer_domain_length(k - 1))
                IN  /\ checked = FriQueryPhaseIndexes(iota, round4.fri_layers[k])
                    /\ checked.index # checked.index_sym

(***************************************************************************)
(* C26: for a layer polynomial p_k, a point upsilon of its coset and the   *)
(* challenge zeta_k, the value the fold step of the verifier computes from *)
(* p_k(upsilon), p_k(-upsilon) and zeta_k equals p_{k+1}(upsilon^2), with  *)
(* p_{k+1} = even(p_k) + zeta_k * odd(p_k) the folded polynomial of the    *)
(* prover.                                                                 *)
(***************************************************************************)
\* p_k of the commit phase: p_0 folded with the first k challenges
RECURSIVE FriLayerPoly(_)
FriLayerPoly(k) ==
    IF k = 0 THEN round4.deep_composition_poly
    ELSE fold_polynomial(FriLayerPoly(k - 1), round4.zetas[k])

\* the points of the coset of a layer
FriLayerCoset(layer) ==
    {FMul(layer.coset_offset,
          FPow(get_primitive_root_of_unity(trailing_zeros(layer.domain_size)), i)) :
        i \in 0..(layer.domain_size - 1)}

C26_FoldMatchesFoldedPoly ==
    round4 # None =>
        \A k \in 1..Len(round4.fri_layers) :
            \A upsilon \in FriLayerCoset(round4.fri_layers[k]) :
                fri_fold_evaluations(evaluate(FriLayerPoly(k - 1), upsilon),
                                     evaluate(FriLayerPoly(k - 1), FSub(0, upsilon)),
                                     round4.zetas[k], FInv(upsilon))
                    = evaluate(FriLayerPoly(k), FMul(upsilon, upsilon))

(***************************************************************************)
(* C27: every quotient term of the DEEP composition polynomial is an exact *)
(* division: the numerator H_i - H_i(z^N) vanishes at z^N, the root of its *)
(* divisor x - z^N, and the numerator t_j - t_j(z g^k) at z g^k, the root  *)
(* of x - z g^k; the quotient times the divisor is the numerator again,    *)
(* and p_0 is the sum of these quotients with their coefficients.          *)
(***************************************************************************)
\* the numerators and the roots of the divisors, as round 4 forms them
DeepTerms ==
    LET parts == round2.composition_poly_parts
        z_power == FPow(round3.z, Len(parts))
        offsets == air_context.transition_offsets
    IN  [i \in 1..Len(parts) |->
            [ numerator |-> PolySubConst(parts[i],
                                round3.composition_poly_parts_ood_evaluation[i]),
              root |-> z_power,
              gamma |-> round4.gammas[i] ]]
        \o Flatten([j \in 1..Len(round1.trace_polys) |->
              [k \in 1..Len(offsets) |->
                  [ numerator |-> PolySubConst(round1.trace_polys[j],
                                      At(round3.trace_ood_evaluations[k], j - 1)),
                    root |-> FMul(round3.z, FPow(domain.trace_primitive_root, offsets[k])),
                    gamma |-> round4.trace_poly_coeffients[(j - 1) * Len(offsets) + k] ]]])

\* the sum of the first n quotients, each with its coefficient
RECURSIVE SumOfQuotients(_, _)
SumOfQuotients(terms, n) ==
    IF n = 0 THEN Polynomial_zero
    ELSE PolyAdd(SumOfQuotients(terms, n - 1),
                 PolyScalarMul(terms[n].gamma,
                               ruffini_division(terms[n].numerator, terms[n].root)))

C28_SymmetricPositionsAgree ==
    stark_proof # None =>
        LET N == Len(domain.lde_roots_of_unity_coset)
        IN  \A iota \in 0..(N - 1) :
                /\ query_challenge_to_merkle_root_index_sym(iota, N) = (iota + N \div 2) % N
                /\ composition_poly_opening_index_sym(iota)
                       = query_challenge_to_merkle_root_index_sym(iota, N)


(***************************************************************************)
(* SpecFri: fri_commit_phase called on its own (fri/mod.rs:39-91), on the  *)
(* arguments round 4 can pass: a polynomial of degree below the domain     *)
(* size, number_layers up to log2 of the domain size (round 4 passes       *)
(* domain.root_order, which is 0 for a trace of one row).                  *)
(***************************************************************************)
MaxFriCoeff == 1
MaxFriOrder == 3
MaxFriSeed == 3

FriPolys == {Polynomial_new(<<a, b, c, d>>) : a, b, c, d \in 0..MaxFriCoeff}

FriInputs ==
    {[ number_layers |-> number_layers, p_0 |-> p_0,
       transcript |-> append_field_element(Transcript_new, seed),
       coset_offset |-> coset_offset, domain_size |-> Pow2(order) ] :
        number_layers \in 0..MaxFriOrder, p_0 \in FriPolys, seed \in 0..MaxFriSeed,
        coset_offset \in {1, COSET_OFFSET}, order \in 1..MaxFriOrder}

FInit ==
    /\ MIdle
    /\ PIdle
    /\ CIdle
    /\ SIdle
    /\ TIdle
    /\ fPhase = "start"
    /\ fInput \in {i \in FriInputs :
                      /\ Len(i.p_0) <= i.domain_size
                      /\ Pow2(i.number_layers) <= i.domain_size}
    /\ fResult = None

FriCommit ==
    /\ fPhase = "start"
    /\ fPhase' = "committed"
    /\ fResult' = fri_commit_phase(fInput.number_layers, fInput.p_0, fInput.transcript,
                                   fInput.coset_offset, fInput.domain_size)
    /\ UNCHANGED <<fInput, mvars, pvars, cvars, svars, tvars>>

FNext == FriCommit

SpecFri == FInit /\ [][FNext]_vars

\* layer k (from 0) as the commit phase describes it: the polynomial and the
\* transcript right after [p_k] was appended
RECURSIVE FriCommitted(_)
FriCommitted(k) ==
    IF k = 0
    THEN [ poly |-> fInput.p_0,
           transcript |-> append_bytes(fInput.transcript, fResult.fri_layers[1].merkle_tree.root) ]
    ELSE LET previous == FriCommitted(k - 1)
             zeta == sample_field_element(previous.transcript)
         IN  [ poly |-> fold_polynomial(previous.poly, zeta.value),
               transcript |-> append_bytes(zeta.t, fResult.fri_layers[k + 1].merkle_tree.root) ]

\* layer k (from 0) has the size, the offset and the evaluations of its polynomial
FriLayerAsFolded(k) ==
    LET layer == fResult.fri_layers[k + 1]
        domain_size == fInput.domain_size \div Pow2(k)
        coset_offset == FPow(fInput.coset_offset, Pow2(k))
        omega == get_primitive_root_of_unity(trailing_zeros(domain_size))
    IN  /\ layer.domain_size = domain_size
        /\ layer.coset_offset = coset_offset
        /\ Len(layer.evaluation) = layer.domain_size
        /\ layer.evaluation =
               [i \in 1..domain_size |->
                   evaluate(FriCommitted(k).poly, FMul(coset_offset, FPow(omega, i - 1)))]

\* the commit phase returned layers_count layers, each as folded from the one before
FriLayersAsFolded(layers_count) ==
    /\ Len(fResult.fri_layers) = layers_count
    /\ \A k \in 0..(Len(fResult.fri_layers) - 1) : FriLayerAsFolded(k)

MaxTraceRows == 2
MaxTraceCols == 2
MaxTraceValue == 1

Table_new(data, n_columns) ==
    [ data |-> data, width |-> n_columns,
      height |-> IF n_columns = 0 THEN 0 ELSE Len(data) \div n_columns ]

Table_get_row(table, row_idx) ==
    SubSeq(table.data, row_idx * table.width + 1, (row_idx + 1) * table.width)

Table_append_row(table, row) ==
    [table EXCEPT !.data = @ \o row, !.height = @ + 1]

n_rows(table) == table.height

n_cols(table) == table.width

last_row(table) == Table_get_row(table, n_rows(table) - 1)

\* the cell of a row and a column, both from 0
TableCell(table, row_idx, col_idx) == table.data[row_idx * table.width + col_idx + 1]

\* set_or_extend: the outcome and the table after the call.  The two
\* debug_assert! are compiled only with debug assertions; with no row,
\* last_row computes n_rows() - 1 below zero and no build returns a row.
set_or_extend(table, row_idx, col_idx, value, debug_assertions) ==
    IF debug_assertions /\ ~(col_idx < n_cols(table))
    THEN [outcome |-> "panic", table |-> table]
    ELSE IF debug_assertions /\ ~(row_idx <= n_rows(table) + 1)
    THEN [outcome |-> "panic", table |-> table]
    ELSE IF row_idx >= n_rows(table)
    THEN IF n_rows(table) = 0
         THEN [outcome |-> "panic", table |-> table]
         ELSE [ outcome |-> "ok",
                table |-> Table_append_row(table,
                              [last_row(table) EXCEPT ![col_idx + 1] = value]) ]
    ELSE [ outcome |-> "ok",
           table |-> [table EXCEPT !.data[row_idx * table.width + col_idx + 1] = value] ]

\* the tables a caller starts from: every cell holds a value of its own
TraceTables ==
    {Table_new([i \in 1..(height * width) |-> (MaxTraceValue + i) % P], width) :
        height \in 0..MaxTraceRows, width \in 1..MaxTraceCols}

TInit ==
    /\ MIdle
    /\ PIdle
    /\ CIdle
    /\ SIdle
    /\ FIdle
    /\ tPhase = "start"
    /\ tTable \in TraceTables
    /\ tCall = None

\* one call of set_or_extend, in a build with or without debug assertions
SetOrExtend ==
    /\ tPhase \in {"start", "called"}
    /\ n_rows(tTable) <= MaxTraceRows
    /\ \E row_idx \in 0..(n_rows(tTable) + 2), col_idx \in 0..(n_cols(tTable) - 1),
          value \in 0..MaxTraceValue, debug_assertions \in BOOLEAN :
          LET result == set_or_extend(tTable, row_idx, col_idx, value, debug_assertions)
          IN  /\ tTable' = result.table
              /\ tPhase' = IF result.outcome = "ok" THEN "called" ELSE "panicked"
              /\ tCall' = [ row_idx |-> row_idx, col_idx |-> col_idx, value |-> value,
                            debug_assertions |-> debug_assertions,
                            before |-> tTable, outcome |-> result.outcome ]
    /\ UNCHANGED <<mvars, pvars, cvars, svars, fvars>>

TNext == SetOrExtend

SpecTrace == TInit /\ [][TNext]_vars

\* the frame effect of the last call: the cell holds the value, the other
\* cells of the rows that existed are unchanged, at most one row is appended
\* and its other cells copy the previous last row
SetOrExtendFrame ==
    LET before == tCall.before
        row_idx == tCall.row_idx
        col_idx == tCall.col_idx
    IN  /\ tCall.outcome = "ok"
        /\ n_cols(tTable) = n_cols(before)
        /\ Len(tTable.data) = n_rows(tTable) * n_cols(tTable)
        /\ row_idx < n_rows(tTable)
        /\ TableCell(tTable, row_idx, col_idx) = tCall.value
        /\ \A r \in 0..(n_rows(before) - 1), c \in 0..(n_cols(before) - 1) :
              <<r, c>> # <<row_idx, col_idx>> =>
                  TableCell(tTable, r, c) = TableCell(before, r, c)
        /\ n_rows(tTable) \in {n_rows(before), n_rows(before) + 1}
        /\ n_rows(tTable) = n_rows(before) + 1 =>
              \A c \in 0..(n_cols(before) - 1) :
                  <<n_rows(before), c>> # <<row_idx, col_idx>> =>
                      TableCell(tTable, n_rows(before), c)
                          = TableCell(before, n_rows(before) - 1, c)

\* C30: for every row_idx the integrity check of set_or_extend admits
\* (row_idx <= n_rows() + 1) and every valid col_idx, after the call the cell
\* (row_idx, col_idx) holds value, every other cell of the rows that existed
\* before is unchanged, and at most one row is appended, whose other cells
\* copy the previous last row.
C30_SetOrExtendFrameEffect ==
    (tCall # None /\ tCall.row_idx <= n_rows(tCall.before) + 1) => SetOrExtendFrame

====
